---- MODULE Spec2Model ----
(***************************************************************************)
(* pipg: the dependency resolver (internal/resolver), the concurrent      *)
(* download manager and the wheel selection (internal/downloader), the    *)
(* wheel cache (internal/cache) and the wheel installer                   *)
(* (internal/installer), as state machines.                               *)
(*                                                                         *)
(* Strings that the code inspects character by character (package names)  *)
(* are sequences of one-character strings.  A PEP 440 version is a record *)
(* [release, pre]: the release tuple and whether it carries a pre-release *)
(* segment.  The empty Go string "" is the empty sequence.                *)
(***************************************************************************)
EXTENDS Integers, Sequences, FiniteSets, TLC

(***************************************************************************)
(* Bounds of the model.                                                    *)
(***************************************************************************)
\* final releases 1.0 .. MaxRelease.0 exist, and one pre-release above them
MaxRelease == 2
\* length of the requirement list handed to Resolve
MaxRoots == 2
\* length of a requires_dist list served by the index
MaxDeps == 1
\* GetPackage calls the index answers for one name in one run
MaxFetch == 2
\* length of the request list handed to Download
MaxRequests == 2
\* the largest worker limit a Manager is built with
MaxWorkers == 2
\* concurrent callers of one cache directory
MaxWriters == 2
\* length of the release file list handed to SelectWheel
MaxURLs == 3
\* length of the priority list handed to SelectWheel
MaxCompatTags == 3
\* entries of the archive of a wheel that is installed alone
MaxEntries == 3
\* length of a list of several wheels handed to Install
MaxWheels == 2
MaxNameLen == 4
MaxArgs == 2
MaxPlans == 2

VARIABLES
    \* ---- resolver.Service and one Resolve call
    requirements,   \* the argument of Resolve
    noDeps,         \* Service.noDeps
    markerEnv,      \* Service.markerEnv
    queue,          \* Resolve: queue
    resolved,       \* Resolve: resolved, name -> ResolvedPackage
    constraints,    \* Resolve: constraints, name -> specifier strings
    processing,     \* Resolve: processing, the names set to true
    rpc,            \* where Resolve stands
    cur,            \* resolvePackage: name, the versions of info, best
    result,         \* the list Resolve returned
    rerr,           \* the error Resolve returned
    reached,        \* history: the requirements dequeued so far
    fetches,        \* history: GetPackage calls per name
    served,         \* history: the requires_dist the index served per name
    \* ---- downloader.Manager and one Download call
    requests,       \* the argument of Download
    maxWorkers,     \* Manager.maxWorkers
    cacheOn,        \* Manager: a cache is configured
    targetDir,      \* the directory Manager.targetDir names
    started,        \* number of g.Go calls that have returned
    task,           \* per request: the goroutine's position
    attempt,        \* per request: downloadWithRetry's attempt
    xfer,           \* per request: doDownload's descriptor, body and offset
    resp,           \* history, per request: the responses to its requests
    waited,         \* history, per request: the backoffs it sat out, in ms
    terr,           \* per request: the error its goroutine returned
    results,        \* Download: results
    canceled,       \* the errgroup context is done
    gerr,           \* the errgroup's first error
    dpc,            \* where Download stands
    dout,           \* what Download returned
    putCalls,       \* history, per request: the Put calls its goroutine made
    \* ---- cache.Manager
    cacheDir,       \* the directory Manager.dir names
    puts,           \* per concurrent caller of Put: its position
    \* ---- downloader.ParseWheelFilename and downloader.SelectWheel
    wop,            \* which of the two is called
    wsrc,           \* history: the fields wfile was written from
    wfile,          \* the argument of ParseWheelFilename
    urls,           \* SelectWheel: urls
    compatTags,     \* SelectWheel: compatTags
    wpc,            \* where the call stands
    ui,             \* SelectWheel: the position in urls
    bestPriority,   \* SelectWheel: bestPriority
    bestURL,        \* SelectWheel: bestURL
    found,          \* SelectWheel: found
    wparsed,        \* what ParseWheelFilename returned
    wout,           \* what SelectWheel returned
    \* ---- installer.Service and one Install call
    pyenv,          \* Service.env
    downloads,      \* the argument of Install, with the archive of each wheel
    ictx,           \* the context of Install is done
    disk,           \* the files of the target environment
    ipc,            \* where Install stands
    wi,             \* Install: wheels installed so far
    ei,             \* installWheel: entries of r.File passed so far
    records,        \* installWheel: records
    distInfoDir,    \* installWheel: distInfoDir
    ierr,           \* the error Install returned
    log,            \* history, per wheel: the entries and files it wrote
    \* ---- resolver.NormalizeName and resolver.EvalMarker
    qop,            \* which of the two is called
    qname,          \* the argument of NormalizeName
    qmarker,        \* EvalMarker: marker
    qenv,           \* EvalMarker: env
    qpc,            \* where the call stands
    nout,           \* what NormalizeName returned
    nout2,          \* what NormalizeName returned for nout
    mout,           \* what EvalMarker returned
    \* ---- pypi.Service and one GetPackage or GetPackageVersion call
    fcall,          \* the method called and its arguments
    fctx,           \* the context of the call is done
    fpc,            \* where fetch stands
    fattempt,       \* fetch: attempt
    fsent,          \* history: the answers to the requests made, in order
    fwaited,        \* history: the backoffs sat out, in ms
    fret,           \* what the call returned
    \* ---- one run of the install command (cmd/pipg)
    margs,          \* the arguments and flags of the command line
    mpc,            \* where runInstall stands
    mreqs,          \* runInstall: requirements
    mctx,           \* the context of signal.NotifyContext is done
    mplans,         \* runInstall: the number of plans
    mresults,       \* runInstall: the number of results
    mtmp,           \* the temporary download directory
    mdefers,        \* the deferred calls of runInstall
    merr,           \* the error run returned
    mexit,          \* the exit status of the process
    mcalls          \* history: the calls made into the packages and the OS

resolverVars == <<requirements, noDeps, markerEnv, queue, resolved, constraints,
                  processing, rpc, cur, result, rerr, reached, fetches, served>>
downloadVars == <<requests, maxWorkers, cacheOn, targetDir, started, task, attempt,
                  xfer, resp, waited, terr, results, canceled, gerr, dpc, dout,
                  putCalls>>
cacheVars == <<cacheDir, puts>>
wheelVars == <<wop, wsrc, wfile, urls, compatTags, wpc, ui, bestPriority, bestURL,
               found, wparsed, wout>>
installVars == <<pyenv, downloads, ictx, disk, ipc, wi, ei, records, distInfoDir, ierr,
                 log>>
requirementVars == <<qop, qname, qmarker, qenv, qpc, nout, nout2, mout>>
fetchVars == <<fcall, fctx, fpc, fattempt, fsent, fwaited, fret>>
runVars == <<margs, mpc, mreqs, mctx, mplans, mresults, mtmp, mdefers, merr, mexit,
             mcalls>>
restVars == <<requirementVars, fetchVars, runVars>>
vars == <<resolverVars, downloadVars, cacheVars, wheelVars, installVars, restVars>>

(***************************************************************************)
(* Generic helpers.                                                        *)
(***************************************************************************)
Range(s) == {s[i] : i \in 1..Len(s)}

SeqsUpTo(S, n) == UNION {[1..k -> S] : k \in 0..n}

\* the value of a Go map read at key k: the zero value when k is absent
MapGet(m, k, zero) == IF k \in DOMAIN m THEN m[k] ELSE zero

MapPut(m, k, v) == [x \in (DOMAIN m) \cup {k} |-> IF x = k THEN v ELSE m[x]]

EmptyMap == [x \in {} |-> 0]

(***************************************************************************)
(* PEP 440 versions and specifiers (the pep440 package the resolver calls).*)
(***************************************************************************)
EmptyString == <<>>

\* the version r.0, final or with a pre-release segment (r.0a1)
Ver(r, p) == [release |-> <<r, 0>>, pre |-> p]

\* every version string the index may name: 1.0 .. MaxRelease.0 and one
\* pre-release above all of them
FinalVersions == {Ver(r, FALSE) : r \in 1..MaxRelease}
PreVersions == {Ver(MaxRelease + 1, TRUE)}
Versions == FinalVersions \cup PreVersions

\* pep440.Parse succeeds on the string
ParseOK(v) == v # EmptyString

IsPreRelease(v) == v.pre

RECURSIVE CompareRelease(_, _)
\* release tuples, compared component by component, the shorter one padded
\* with zeros: -1, 0 or 1
CompareRelease(a, b) ==
    IF a = <<>> /\ b = <<>> THEN 0
    ELSE LET x == IF a = <<>> THEN 0 ELSE Head(a)
             y == IF b = <<>> THEN 0 ELSE Head(b)
         IN IF x < y THEN -1
            ELSE IF x > y THEN 1
            ELSE CompareRelease(IF a = <<>> THEN <<>> ELSE Tail(a),
                                IF b = <<>> THEN <<>> ELSE Tail(b))

\* Version.Compare: the release decides, then a pre-release sorts before the
\* final release of the same number
Compare(a, b) ==
    LET c == CompareRelease(a.release, b.release)
    IN IF c # 0 THEN c
       ELSE IF a.pre = b.pre THEN 0
       ELSE IF a.pre THEN -1 ELSE 1

GreaterThan(a, b) == Compare(a, b) > 0

\* one clause of a specifier string, e.g. ">=2.0"
Clause(op, r) == [op |-> op, v |-> Ver(r, FALSE)]

CheckClause(v, c) ==
    LET cmp == Compare(v, c.v)
    IN CASE c.op = ">=" -> cmp >= 0
         [] c.op = "<=" -> cmp <= 0
         [] c.op = ">"  -> cmp > 0
         [] c.op = "<"  -> cmp < 0
         [] c.op = "==" -> cmp = 0
         [] c.op = "!=" -> cmp # 0

\* Specifiers.Check: a specifier string is the AND of its comma-separated
\* clauses
Check(v, spec) == \A i \in 1..Len(spec) : CheckClause(v, spec[i])

\* MatchesAll: [ok, err]
MatchesAll(versionStr, specifiers) ==
    IF ~ParseOK(versionStr) THEN [ok |-> FALSE, err |-> TRUE]
    ELSE [ok |-> \A i \in 1..Len(specifiers) : Check(versionStr, specifiers[i]),
          err |-> FALSE]

RECURSIVE SortDesc(_)
\* a set of parsed versions as a sequence, highest first
SortDesc(S) ==
    IF S = {} THEN <<>>
    ELSE LET m == CHOOSE x \in S : \A y \in S : ~GreaterThan(y, x)
         IN <<m>> \o SortDesc(S \ {m})

\* SortVersionsDesc: unparseable strings are dropped
SortVersionsDesc(versions) == SortDesc({v \in versions : ParseOK(v)})

RECURSIVE FirstMatch(_, _, _)
\* the loop of FindBestVersion over the sorted candidates; skipPre tells
\* whether pre-releases are passed over
FirstMatch(sorted, specifiers, skipPre) ==
    IF sorted = <<>> THEN EmptyString
    ELSE IF skipPre /\ IsPreRelease(Head(sorted))
         THEN FirstMatch(Tail(sorted), specifiers, skipPre)
    ELSE IF MatchesAll(Head(sorted), specifiers).ok THEN Head(sorted)
    ELSE FirstMatch(Tail(sorted), specifiers, skipPre)

RECURSIVE LastMatch(_, _)
LastMatch(sorted, specifiers) ==
    IF sorted = <<>> THEN EmptyString
    ELSE LET rest == LastMatch(Tail(sorted), specifiers)
         IN IF rest # EmptyString THEN rest
            ELSE IF ~IsPreRelease(Head(sorted)) /\ MatchesAll(Head(sorted), specifiers).ok
                 THEN Head(sorted)
            ELSE EmptyString

FindBestVersionLowest(candidates, specifiers) ==
    LastMatch(SortVersionsDesc(candidates), specifiers)

\* FindBestVersion: "" when nothing matches
FindBestVersion(candidates, specifiers) ==
    FirstMatch(SortVersionsDesc(candidates), specifiers, TRUE)

(***************************************************************************)
(* Requirements and markers (requirement.go).                              *)
(***************************************************************************)
UpperCase == <<"A", "B", "C", "D", "E", "F", "G", "H", "I", "J", "K", "L", "M",
               "N", "O", "P", "Q", "R", "S", "T", "U", "V", "W", "X", "Y", "Z">>
LowerCase == <<"a", "b", "c", "d", "e", "f", "g", "h", "i", "j", "k", "l", "m",
               "n", "o", "p", "q", "r", "s", "t", "u", "v", "w", "x", "y", "z">>

\* strings.ToLower on one character
ToLower(c) ==
    IF \E i \in 1..Len(UpperCase) : UpperCase[i] = c
    THEN LowerCase[CHOOSE i \in 1..Len(UpperCase) : UpperCase[i] = c]
    ELSE c

RECURSIVE NormalizeFromKeepsRuns(_, _)
NormalizeFromKeepsRuns(name, prevHyphen) ==
    IF name = <<>> THEN <<>>
    ELSE IF Head(name) \in {"-", "_", "."}
         THEN <<"-">> \o NormalizeFromKeepsRuns(Tail(name), TRUE)
    ELSE <<Head(name)>> \o NormalizeFromKeepsRuns(Tail(name), FALSE)

RECURSIVE NormalizeFrom(_, _)
\* the loop of NormalizeName, prevHyphen carried along
NormalizeFrom(name, prevHyphen) ==
    IF name = <<>> THEN <<>>
    ELSE IF Head(name) \in {"-", "_", "."}
         THEN (IF prevHyphen THEN <<>> ELSE <<"-">>) \o NormalizeFrom(Tail(name), TRUE)
    ELSE <<Head(name)>> \o NormalizeFrom(Tail(name), FALSE)

\* NormalizeName: lowercase, runs of - _ . collapsed to one hyphen
NormalizeName(name) ==
    NormalizeFrom([i \in 1..Len(name) |-> ToLower(name[i])], FALSE)

\* a requirement string "name spec ; marker", held as its three parts:
\* name  the characters before the first operator character,
\* spec  the specifier string, a sequence of clauses (<<>> is ""),
\* marker  the text after the first ';', a sequence of tokens: the terms
\*         left op right, the words and / or and the parentheses (<<>> is
\*         "")
ReqString(name, spec, marker) == [name |-> name, spec |-> spec, marker |-> marker]

\* ParseRequirement: the Requirement of a requirement string
ParseRequirement(s) ==
    [Name |-> NormalizeName(s.name), Specifier |-> s.spec, Marker |-> s.marker]

NoMarker == <<>>

\* the tokens of a marker: a term left op right as markerTermRe matches it,
\* the separators " and " and " or ", and the parentheses
Term(left, op, right) == [left |-> left, op |-> op, right |-> right]
KwAnd == [key |-> "and"]
KwOr == [key |-> "or"]
ParenOpen == [key |-> "("]
ParenClose == [key |-> ")"]

IsTerm(token) == "left" \in DOMAIN token

RECURSIVE splitFrom(_, _, _, _)
\* the loop of splitOutside from the tokens s on, depth and the part begun
\* carried along
splitFrom(s, sep, depth, part) ==
    IF s = <<>> THEN <<part>>
    ELSE IF Head(s) = ParenOpen
    THEN splitFrom(Tail(s), sep, depth + 1, Append(part, Head(s)))
    ELSE IF Head(s) = ParenClose
    THEN splitFrom(Tail(s), sep, depth - 1, Append(part, Head(s)))
    ELSE IF depth = 0 /\ Head(s) = sep
    THEN <<part>> \o splitFrom(Tail(s), sep, depth, <<>>)
    ELSE splitFrom(Tail(s), sep, depth, Append(part, Head(s)))

\* splitOutside: the parts of s between the separators that are outside
\* parentheses
splitOutside(s, sep) == splitFrom(s, sep, 0, <<>>)

\* a marker token is a variable name or a quoted literal, held as the text
\* that unquote leaves
resolveMarkerValue(token, env) ==
    CASE token = "python_version" -> env.PythonVersion
      [] token = "python_full_version" -> env.PythonVersion
      [] token = "sys_platform" -> env.SysPlatform
      [] token = "os_name" -> env.OsName
      [] OTHER -> token

isVersionVariable(name) == name \in {"python_version", "python_full_version"}

\* pep440.Parse on the version texts that markers and environments use
MarkerVersion ==
    [x \in {"3.8", "3.9", "3.10", "3.12"} |->
        CASE x = "3.8" -> [release |-> <<3, 8>>, pre |-> FALSE]
          [] x = "3.9" -> [release |-> <<3, 9>>, pre |-> FALSE]
          [] x = "3.10" -> [release |-> <<3, 10>>, pre |-> FALSE]
          [] x = "3.12" -> [release |-> <<3, 12>>, pre |-> FALSE]]

IsVersionText(x) == x \in DOMAIN MarkerVersion

compareStringMarker(left, op, right) ==
    CASE op = "==" -> left = right
      [] op = "!=" -> left # right
      [] OTHER -> left = right

compareVersionMarker(left, op, right) ==
    IF ~IsVersionText(left) \/ ~IsVersionText(right)
    THEN compareStringMarker(left, op, right)
    ELSE LET cmp == Compare(MarkerVersion[left], MarkerVersion[right])
         IN CASE op = ">=" -> cmp >= 0
              [] op = "<=" -> cmp <= 0
              [] op = ">"  -> cmp > 0
              [] op = "<"  -> cmp < 0
              [] op = "==" -> cmp = 0
              [] op = "!=" -> cmp # 0
              [] op = "~=" -> cmp >= 0
              [] OTHER -> FALSE

\* evalTerm on a part of a marker: a part that is not one term left op
\* right does not match markerTermRe and counts as true
evalTerm(term, env) ==
    IF Len(term) # 1 \/ ~IsTerm(term[1]) THEN TRUE
    ELSE LET left == resolveMarkerValue(term[1].left, env)
             right == resolveMarkerValue(term[1].right, env)
         IN IF isVersionVariable(term[1].left) \/ isVersionVariable(term[1].right)
            THEN compareVersionMarker(left, term[1].op, right)
            ELSE compareStringMarker(left, term[1].op, right)

\* strings.Contains(marker, "extra")
MentionsExtra(marker) ==
    \E t \in 1..Len(marker) :
        IsTerm(marker[t]) /\ (marker[t].left = "extra" \/ marker[t].right = "extra")

EvalMarkerAlwaysTrue(marker, env) == TRUE

\* EvalMarker: some or-group has all its and-terms true
EvalMarker(marker, env) ==
    IF marker = NoMarker THEN TRUE
    ELSE IF MentionsExtra(marker) THEN FALSE
    ELSE \E g \in Range(splitOutside(marker, KwOr)) :
            \A t \in Range(splitOutside(g, KwAnd)) : evalTerm(t, env)

(***************************************************************************)
(* The package index as the resolver sees it (pypi.Client).                *)
(***************************************************************************)
\* a file of a release (pypi.URL), of which the resolver reads nothing
\* but that it is there
File(y) == [Yanked |-> y]

\* the file lists of a release: no file or one file; a yanked file, or a
\* yanked file and one that is not
FileLists == {<<>>, <<File(FALSE)>>}
YankedFileLists == {<<File(TRUE)>>, <<File(TRUE), File(FALSE)>>}

\* the releases maps, version string -> files: every map without a yanked
\* file, and the maps of one version that has one
ReleaseMaps ==
    UNION {[D -> FileLists] : D \in SUBSET Versions}
    \cup UNION {[{v} -> YankedFileLists] : v \in Versions}

\* info.Info.Version of a response: the newest final release, the oldest
\* one, or nothing
InfoVersions == {Ver(MaxRelease, FALSE), Ver(1, FALSE), EmptyString}

\* availableVersions: the versions of the releases map that have a file,
\* or info.Info.Version alone when the map is empty
availableVersions(info) ==
    IF Cardinality(DOMAIN info.Releases) > 0
    THEN {v \in DOMAIN info.Releases : Len(info.Releases[v]) > 0}
    ELSE IF info.Version # EmptyString THEN {info.Version}
    ELSE {}

(***************************************************************************)
(* The inputs drawn in the model.                                          *)
(***************************************************************************)
SpecGE2 == <<Clause(">=", 2)>>
SpecLT2 == <<Clause("<", 2)>>

\* python_version < "3.10"
PyLt310 == <<Term("python_version", "<", "3.10")>>

\* the requirement strings given to Resolve
RootStrings ==
    { ReqString(<<"a">>, EmptyString, NoMarker),
      ReqString(<<"B">>, SpecLT2, NoMarker) }

\* the requires_dist strings the index serves
DepStrings ==
    { ReqString(<<"b">>, EmptyString, NoMarker),
      ReqString(<<"B">>, SpecGE2, NoMarker),
      ReqString(<<"a">>, SpecGE2, NoMarker),
      ReqString(<<"b">>, SpecLT2, PyLt310) }

DepLists == SeqsUpTo(DepStrings, MaxDeps)

\* every normalized name that can be reached
Names == {NormalizeName(s.name) : s \in RootStrings \cup DepStrings}

MarkerEnvs ==
    { [PythonVersion |-> "3.12", SysPlatform |-> "linux", OsName |-> "posix"],
      [PythonVersion |-> "3.9", SysPlatform |-> "linux", OsName |-> "posix"] }

(***************************************************************************)
(* resolver.Service.Resolve (resolver.go).                                 *)
(***************************************************************************)
NoError == [kind |-> "none"]
NoResult == <<>>
NoCur == [name |-> EmptyString]

verifyConstraintsNever(pkg, specs) == NoError

\* verifyConstraints: the error it returns
verifyConstraints(pkg, specs) ==
    LET m == MatchesAll(pkg.Version, specs)
    IN IF m.err THEN [kind |-> "checking", name |-> pkg.Name]
       ELSE IF ~m.ok
            THEN [kind |-> "conflict", name |-> pkg.Name, version |-> pkg.Version,
                  specs |-> specs]
       ELSE NoError

RECURSIVE KeepMarked(_, _)
\* the loop shared by filterDeps and filterDepNames: the requirements of the
\* strings whose marker is empty or holds
KeepMarked(deps, env) ==
    IF deps = <<>> THEN <<>>
    ELSE LET req == ParseRequirement(Head(deps))
         IN IF req.Marker # NoMarker /\ ~EvalMarker(req.Marker, env)
            THEN KeepMarked(Tail(deps), env)
            ELSE <<req>> \o KeepMarked(Tail(deps), env)

filterDepsIgnoresNoDeps(deps, nd, env) == KeepMarked(deps, env)

filterDepsEnqueuesNone(deps, nd, env) == <<>>

\* filterDeps: the requirements to enqueue
filterDeps(deps, nd, env) == IF nd THEN <<>> ELSE KeepMarked(deps, env)

\* filterDepNames: the names for ResolvedPackage.Dependencies
filterDepNames(requiresDist, env) ==
    LET kept == KeepMarked(requiresDist, env)
    IN [i \in 1..Len(kept) |-> kept[i].Name]

BranchAlwaysResolve(name, res, proc) == "resolve"

\* what the loop does with a dequeued name: recheck a resolved one, pass
\* over one in processing, or resolve it
Branch(name, res, proc) ==
    IF name \in DOMAIN res THEN "verify"
    ELSE IF name \in proc THEN "skip"
    ELSE "resolve"

AccumulateDropsFirst(cons, req) ==
    IF req.Specifier # EmptyString
    THEN MapPut(cons, req.Name, <<req.Specifier>>)
    ELSE cons

\* constraints[req.Name] = append(constraints[req.Name], req.Specifier)
Accumulate(cons, req) ==
    IF req.Specifier # EmptyString
    THEN MapPut(cons, req.Name, Append(MapGet(cons, req.Name, <<>>), req.Specifier))
    ELSE cons

ResultListsPreallocated(res) ==
    LET n == Cardinality(DOMAIN res)
        zero == [Name |-> EmptyString, Version |-> EmptyString, Dependencies |-> <<>>]
    IN {[i \in 1..(2 * n) |-> IF i <= n THEN zero ELSE res[f[i - n]]] :
            f \in {g \in [1..n -> DOMAIN res] : \A i, j \in 1..n : g[i] = g[j] => i = j}}

\* the result slice: the values of resolved, in the order the map iteration
\* happens to give
ResultLists(res) ==
    LET n == Cardinality(DOMAIN res)
    IN {[i \in 1..n |-> res[f[i]]] :
            f \in {g \in [1..n -> DOMAIN res] : \A i, j \in 1..n : g[i] = g[j] => i = j}}

ResolveInit ==
    /\ requirements \in SeqsUpTo(RootStrings, MaxRoots)
    /\ noDeps \in BOOLEAN
    /\ markerEnv \in MarkerEnvs
    /\ queue = [i \in 1..Len(requirements) |-> ParseRequirement(requirements[i])]
    /\ resolved = EmptyMap
    /\ constraints = EmptyMap
    /\ processing = {}
    /\ rpc = "loop"
    /\ cur = NoCur
    /\ result = NoResult
    /\ rerr = NoError
    /\ reached = <<>>
    /\ fetches = [n \in Names |-> 0]
    /\ served = EmptyMap

\* one pass of the loop up to the call of resolvePackage
Dequeue ==
    /\ rpc = "loop"
    /\ queue # <<>>
    /\ LET req == Head(queue)
           cons == Accumulate(constraints, req)
           b == Branch(req.Name, resolved, processing)
           verr == IF b = "verify"
                   THEN verifyConstraints(resolved[req.Name], MapGet(cons, req.Name, <<>>))
                   ELSE NoError
       IN /\ queue' = Tail(queue)
          /\ constraints' = cons
          /\ reached' = Append(reached, req)
          /\ processing' = IF b = "resolve" THEN processing \cup {req.Name} ELSE processing
          /\ cur' = IF b = "resolve" THEN [name |-> req.Name] ELSE NoCur
          /\ rerr' = verr
          /\ rpc' = IF verr # NoError THEN "failed"
                    ELSE IF b = "resolve" THEN "resolvePackage"
                    ELSE "loop"
    /\ UNCHANGED <<requirements, noDeps, markerEnv, resolved, result, fetches, served>>

\* resolvePackage up to fetchDeps: the index answers GetPackage with an error
\* or with a response, and the best version is chosen
GetPackage ==
    /\ rpc = "resolvePackage"
    /\ fetches[cur.name] < MaxFetch
    /\ fetches' = [fetches EXCEPT ![cur.name] = @ + 1]
    /\ \E ok \in BOOLEAN :
        IF ~ok
        THEN /\ rpc' = "failed"
             /\ rerr' = [kind |-> "fetching", name |-> cur.name]
             /\ cur' = cur
        ELSE \E rel \in ReleaseMaps, iv \in InfoVersions :
            LET info == [Version |-> iv, Releases |-> rel]
                specs == MapGet(constraints, cur.name, <<>>)
                cands == availableVersions(info)
                best == FindBestVersion(cands, specs)
            IN /\ cur' = [name |-> cur.name, versions |-> cands, best |-> best,
                          infoVersion |-> iv, releases |-> rel]
               /\ IF best = EmptyString
                  THEN /\ rpc' = "failed"
                       /\ rerr' = [kind |-> "no compatible version", name |-> cur.name,
                                   specs |-> specs]
                  ELSE /\ rpc' = "fetchDeps"
                       /\ rerr' = NoError
    /\ UNCHANGED <<requirements, noDeps, markerEnv, queue, resolved, constraints,
                   processing, result, reached, served>>

\* fetchDeps and the rest of the pass: requires_dist comes from the response
\* at hand when it is the chosen version's, from GetPackageVersion otherwise;
\* the package is recorded and its dependencies are enqueued
FetchDeps ==
    /\ rpc = "fetchDeps"
    /\ \E ok \in BOOLEAN :
        IF ~ok
        THEN /\ cur.best # cur.infoVersion
             /\ rpc' = "failed"
             /\ rerr' = [kind |-> "fetching version", name |-> cur.name,
                         version |-> cur.best]
             /\ cur' = cur
             /\ UNCHANGED <<resolved, queue, served>>
        ELSE \E deps \in DepLists :
             /\ served' = MapPut(served, cur.name, deps)
             /\ resolved' = MapPut(resolved, cur.name,
                    [Name |-> cur.name, Version |-> cur.best,
                     Dependencies |-> filterDepNames(deps, markerEnv)])
             /\ queue' = queue \o filterDeps(deps, noDeps, markerEnv)
             /\ rpc' = "loop"
             /\ rerr' = NoError
             /\ cur' = NoCur
    /\ UNCHANGED <<requirements, noDeps, markerEnv, constraints, processing, result,
                   reached, fetches>>

\* the queue is empty: the result is built and returned
Return ==
    /\ rpc = "loop"
    /\ queue = <<>>
    /\ result' \in ResultLists(resolved)
    /\ rpc' = "done"
    /\ UNCHANGED <<requirements, noDeps, markerEnv, queue, resolved, constraints,
                   processing, cur, rerr, reached, fetches, served>>

(***************************************************************************)
(* A directory as the os package shows it.  link maps a path to its inode, *)
(* data maps an inode to the chunks written to it (0: a hole left by a     *)
(* write past the end), dirs holds the paths that are directories.  A path *)
(* is <<filename, suffix>>.                                                *)
(***************************************************************************)
MapDel(m, k) == [x \in (DOMAIN m) \ {k} |-> m[x]]

EmptyDir == [link |-> EmptyMap, data |-> EmptyMap, dirs |-> {}]

\* filepath.Join(dir, filename)
Path(filename) == <<filename, "">>

\* destPath + ".tmp"
TmpPath(filename) == <<filename, ".tmp">>

\* a regular file is at path
IsFile(dir, path) == path \in DOMAIN dir.link

\* os.Stat(path) succeeds
Exists(dir, path) == IsFile(dir, path) \/ path \in dir.dirs

\* the bytes of the regular file at path
Content(dir, path) == dir.data[dir.link[path]]

\* os.Create(path): O_CREATE|O_TRUNC.  An existing file is truncated in
\* place, so every descriptor open on it sees the truncation; id names the
\* inode of a new file
Create(dir, path, id) ==
    IF path \in dir.dirs
    THEN [ok |-> FALSE, fd |-> 0, dir |-> dir]
    ELSE IF IsFile(dir, path)
    THEN [ok |-> TRUE, fd |-> dir.link[path],
          dir |-> [dir EXCEPT !.data[dir.link[path]] = <<>>]]
    ELSE [ok |-> TRUE, fd |-> id,
          dir |-> [dir EXCEPT !.link = MapPut(dir.link, path, id),
                              !.data = MapPut(dir.data, id, <<>>)]]

\* one Write of a descriptor that stands at offset off
WriteAt(dir, fd, off, chunk) ==
    LET old == dir.data[fd]
        n == IF Len(old) > off + 1 THEN Len(old) ELSE off + 1
    IN [dir EXCEPT !.data[fd] =
            [k \in 1..n |-> IF k = off + 1 THEN chunk
                            ELSE IF k <= Len(old) THEN old[k] ELSE 0]]

\* os.Remove(path), its error dropped
Remove(dir, path) ==
    IF IsFile(dir, path) THEN [dir EXCEPT !.link = MapDel(dir.link, path)]
    ELSE dir

\* os.Rename(old, new)
Rename(dir, old, new) ==
    IF IsFile(dir, old) /\ new \notin dir.dirs
    THEN [ok |-> TRUE,
          dir |-> [dir EXCEPT !.link = MapPut(MapDel(dir.link, old), new,
                                              dir.link[old])]]
    ELSE [ok |-> FALSE, dir |-> dir]

\* an inode that no path names and no descriptor holds open is gone
Sweep(dir, open) ==
    LET live == {dir.link[p] : p \in DOMAIN dir.link} \cup open
    IN [dir EXCEPT !.data = [k \in (DOMAIN dir.data) \cap live |-> dir.data[k]]]

(***************************************************************************)
(* Wheel bodies, as chunks, and their digests.  SHA-256 is taken to be     *)
(* injective: the digest of a body is the body under a tag.                *)
(***************************************************************************)
Good == <<1, 2>>
Bad == <<1, 3>>
Bodies == {Good, Bad}

\* hex.EncodeToString(h.Sum(nil))
Sha256Hex(bytes) == <<"sha256", bytes>>

(***************************************************************************)
(* cache.Manager (README.md).                                              *)
(***************************************************************************)
\* hashFile: the digest of the file at path, or an error
hashFile(dir, path) ==
    IF IsFile(dir, path)
    THEN [ok |-> TRUE, sum |-> Sha256Hex(Content(dir, path))]
    ELSE [ok |-> FALSE, sum |-> EmptyString]

GetNeverVerifies(dir, filename, expectedSHA256) ==
    IF IsFile(dir, Path(filename))
    THEN [path |-> Path(filename), ok |-> TRUE, dir |-> dir]
    ELSE [path |-> EmptyString, ok |-> FALSE, dir |-> dir]

\* Manager.Get: [path, ok] and the directory it leaves
Get(dir, filename, expectedSHA256) ==
    LET path == Path(filename)
        miss == [path |-> EmptyString, ok |-> FALSE, dir |-> dir]
        h == hashFile(dir, path)
    IN IF ~Exists(dir, path) \/ path \in dir.dirs THEN miss
       ELSE IF expectedSHA256 # EmptyString /\ (~h.ok \/ h.sum # expectedSHA256)
       THEN [miss EXCEPT !.dir = Remove(dir, path)]
       ELSE [path |-> path, ok |-> TRUE, dir |-> dir]

\* Manager.Put run from its first line to its last with no other writer in
\* between: [ok] and the directory it leaves.  content is what srcPath
\* holds, id names the inode of the temporary file
Put(dir, content, filename, id) ==
    LET c == Create(dir, TmpPath(filename), id)
        written == [c.dir EXCEPT !.data[c.fd] = content]
        r == Rename(written, TmpPath(filename), Path(filename))
    IN IF ~c.ok THEN [ok |-> FALSE, dir |-> dir]
       ELSE IF r.ok THEN [ok |-> TRUE, dir |-> Sweep(r.dir, {})]
       ELSE [ok |-> FALSE, dir |-> Sweep(Remove(written, TmpPath(filename)), {})]

(***************************************************************************)
(* downloader.Manager.Download (downloader.go).                            *)
(***************************************************************************)
maxRetries == 3

Request(n, v, sha) == [Name |-> n, Version |-> v, SHA256 |-> sha, Filename |-> n]

\* the requests drawn: two packages, one with a digest to verify and one
\* without
RequestPool == {Request("pkg-a", "1.0.0", Sha256Hex(Good)),
                Request("pkg-b", "2.0.0", EmptyString)}

\* the zero value of Result, which make() fills the results slice with
ZeroResult == [Name |-> "", Version |-> "", FilePath |-> EmptyString, Size |-> 0,
               Cached |-> FALSE]

\* what one HTTP exchange can come to
Outcomes == {"200", "4xx", "5xx", "network error"}

\* the caches a Manager is built over: none, an empty one, one that holds
\* both wheels, one that holds other bytes under both names, one with a
\* directory in the place of an entry
CacheWith(a, b) ==
    [link |-> (Path("pkg-a") :> 8) @@ (Path("pkg-b") :> 9),
     data |-> (8 :> a) @@ (9 :> b), dirs |-> {}]

CacheDirs == {EmptyDir, CacheWith(Good, Good), CacheWith(Bad, Bad),
              [EmptyDir EXCEPT !.dirs = {Path("pkg-a")}]}

\* 2^n, as math.Pow(2, float64(n)) converted to an integer
RECURSIVE Pow2(_)
Pow2(n) == IF n = 0 THEN 1 ELSE 2 * Pow2(n - 1)

\* the backoff before the pass of the loop with index n (attempt), in ms
Backoff(n) == Pow2(n) * 500

\* the backoff of the index client's fetch before the pass with index n, in ms
fetchBackoff(n) == Pow2(n) * 500

doDownloadRetries4xx(outcome, ctxDone) ==
    IF ctxDone
    THEN [ok |-> FALSE, retryable |-> TRUE, err |-> "requesting", sent |-> FALSE]
    ELSE IF outcome = "network error"
    THEN [ok |-> FALSE, retryable |-> TRUE, err |-> "requesting", sent |-> TRUE]
    ELSE IF outcome \in {"5xx", "4xx"}
    THEN [ok |-> FALSE, retryable |-> TRUE, err |-> "unexpected status", sent |-> TRUE]
    ELSE [ok |-> TRUE, retryable |-> FALSE, err |-> "", sent |-> TRUE]

doDownloadIgnoresContext(outcome, ctxDone) ==
    IF outcome = "network error"
    THEN [ok |-> FALSE, retryable |-> TRUE, err |-> "requesting", sent |-> TRUE]
    ELSE IF outcome = "5xx"
    THEN [ok |-> FALSE, retryable |-> TRUE, err |-> "unexpected status", sent |-> TRUE]
    ELSE IF outcome = "4xx"
    THEN [ok |-> FALSE, retryable |-> FALSE, err |-> "unexpected status", sent |-> TRUE]
    ELSE [ok |-> TRUE, retryable |-> FALSE, err |-> "", sent |-> TRUE]

\* the request and the status test of doDownload: a request made on a
\* context that is done fails in the client and never reaches the server
doDownload(outcome, ctxDone) ==
    IF ctxDone
    THEN [ok |-> FALSE, retryable |-> TRUE, err |-> "requesting", sent |-> FALSE]
    ELSE IF outcome = "network error"
    THEN [ok |-> FALSE, retryable |-> TRUE, err |-> "requesting", sent |-> TRUE]
    ELSE IF outcome = "5xx"
    THEN [ok |-> FALSE, retryable |-> TRUE, err |-> "unexpected status", sent |-> TRUE]
    ELSE IF outcome = "4xx"
    THEN [ok |-> FALSE, retryable |-> FALSE, err |-> "unexpected status", sent |-> TRUE]
    ELSE [ok |-> TRUE, retryable |-> FALSE, err |-> "", sent |-> TRUE]

VerifyNothing(req, bytes) == TRUE

\* the digest test of doDownload: the streamed bytes pass
Verify(req, bytes) == req.SHA256 = EmptyString \/ Sha256Hex(bytes) = req.SHA256

\* a path inside the directory named dirname
In(dirname, path) == <<dirname>> \o path

CachedResultSizeZero(req, path, dir) ==
    [Name |-> req.Name, Version |-> req.Version, FilePath |-> In("cache", path),
     Size |-> 0, Cached |-> TRUE]

\* the result of a task served from the cache entry at path
CachedResult(req, path, dir) ==
    [Name |-> req.Name, Version |-> req.Version, FilePath |-> In("cache", path),
     Size |-> Len(Content(dir, path)), Cached |-> TRUE]

StoreInCompletionOrder(res, i, r) ==
    LET free == {k \in 1..Len(res) : res[k] = ZeroResult}
    IN IF free = {} THEN res
       ELSE [res EXCEPT ![CHOOSE k \in free : \A j \in free : k <= j] = r]

\* results[i] = result, under the mutex
StoreResult(res, i, r) == [res EXCEPT ![i] = r]

\* the goroutines that hold a slot of the errgroup's limit
Active == {i \in 1..Len(task) : task[i] \in {"lookup", "running", "copying", "backoff"}}

SlotAlwaysFree(active, limit) == TRUE

\* g.SetLimit(m.maxWorkers): g.Go blocks while limit goroutines are active
SlotFree(active, limit) == Cardinality(active) < limit

\* the descriptors the goroutines hold open in the target directory
OpenFiles(x) == {x[i].fd : i \in {j \in 1..Len(x) : x[j].fd # 0}}

NoXfer == [fd |-> 0, body |-> <<>>, off |-> 0]

TaskError(kind, i, ctxDone) ==
    [kind |-> kind, name |-> requests[i].Name, index |-> i, canceled |-> ctxDone]

KeepLastError(old, e) == e

\* errgroup: the first error returned by a goroutine is kept
FirstError(old, e) == IF old = NoError THEN e ELSE old

\* goroutine i returns e: downloadWithRetry's error goes to the errgroup,
\* which cancels its context
Fail(i, e) ==
    /\ task' = [task EXCEPT ![i] = "failed"]
    /\ terr' = [terr EXCEPT ![i] = e]
    /\ gerr' = FirstError(gerr, e)
    /\ canceled' = TRUE

DownloadInit ==
    /\ requests \in SeqsUpTo(RequestPool, MaxRequests)
    /\ maxWorkers \in 1..MaxWorkers
    /\ cacheOn \in BOOLEAN
    /\ cacheDir \in IF cacheOn THEN CacheDirs ELSE {EmptyDir}
    /\ targetDir = EmptyDir
    /\ started = 0
    /\ task = [i \in 1..Len(requests) |-> "idle"]
    /\ attempt = [i \in 1..Len(requests) |-> 0]
    /\ xfer = [i \in 1..Len(requests) |-> NoXfer]
    /\ resp = [i \in 1..Len(requests) |-> <<>>]
    /\ waited = [i \in 1..Len(requests) |-> <<>>]
    /\ terr = [i \in 1..Len(requests) |-> NoError]
    /\ results = [i \in 1..Len(requests) |-> ZeroResult]
    /\ canceled = FALSE
    /\ gerr = NoError
    /\ dpc = "spawn"
    /\ dout = NoResult
    /\ putCalls = [i \in 1..Len(requests) |-> <<>>]

\* the caller cancels the context it handed to Download
Cancel ==
    /\ dpc = "spawn"
    /\ ~canceled
    /\ canceled' = TRUE
    /\ UNCHANGED <<requests, maxWorkers, cacheOn, cacheDir, targetDir, started, task,
                   attempt, xfer, resp, waited, terr, results, gerr, dpc, dout, putCalls>>

\* g.Go in the loop over the requests: it waits for a free slot and starts
\* the goroutine of the next request, which begins at the cache when there
\* is one
Go ==
    /\ dpc = "spawn"
    /\ started < Len(requests)
    /\ SlotFree(Active, maxWorkers)
    /\ started' = started + 1
    /\ task' = [task EXCEPT ![started + 1] = IF cacheOn THEN "lookup" ELSE "running"]
    /\ UNCHANGED <<requests, maxWorkers, cacheOn, cacheDir, targetDir, attempt, xfer,
                   resp, waited, terr, results, canceled, gerr, dpc, dout, putCalls>>

\* the cache lookup of goroutine i: a hit is the task's result, a miss
\* leads to the download
Lookup(i) ==
    /\ task[i] = "lookup"
    /\ LET g == Get(cacheDir, requests[i].Filename, requests[i].SHA256)
       IN /\ cacheDir' = Sweep(g.dir, {})
          /\ IF g.ok
             THEN /\ task' = [task EXCEPT ![i] = "done"]
                  /\ results' = StoreResult(results, i,
                                            CachedResult(requests[i], g.path, cacheDir))
             ELSE /\ task' = [task EXCEPT ![i] = "running"]
                  /\ UNCHANGED results
    /\ UNCHANGED <<requests, maxWorkers, cacheOn, targetDir, started, attempt, xfer,
                   resp, waited, terr, canceled, gerr, dpc, dout, putCalls>>

\* one pass of the loop of downloadWithRetry in goroutine i, from doDownload
\* to os.Create: the request is made and, on a 200, the temporary file is
\* created
Attempt(i) ==
    /\ task[i] = "running"
    /\ \E outcome \in Outcomes, b \in Bodies, created \in BOOLEAN :
        LET d == doDownload(outcome, canceled)
            c == Create(targetDir, TmpPath(requests[i].Filename), i)
        IN /\ resp' = IF d.sent THEN [resp EXCEPT ![i] = Append(@, outcome)] ELSE resp
           /\ IF d.ok /\ created /\ c.ok
              THEN /\ targetDir' = c.dir
                   /\ xfer' = [xfer EXCEPT ![i] = [fd |-> c.fd, body |-> b, off |-> 0]]
                   /\ task' = [task EXCEPT ![i] = "copying"]
                   /\ UNCHANGED <<attempt, terr, gerr, canceled>>
              ELSE IF d.ok
              THEN /\ Fail(i, TaskError("creating temp file", i, FALSE))
                   /\ UNCHANGED <<attempt, targetDir, xfer>>
              ELSE IF ~d.retryable
              THEN /\ Fail(i, TaskError(d.err, i, FALSE))
                   /\ UNCHANGED <<attempt, targetDir, xfer>>
              ELSE IF attempt[i] + 1 < maxRetries
              THEN /\ attempt' = [attempt EXCEPT ![i] = @ + 1]
                   /\ task' = [task EXCEPT ![i] = "backoff"]
                   /\ UNCHANGED <<targetDir, xfer, terr, gerr, canceled>>
              ELSE /\ Fail(i, TaskError("after 3 attempts", i, canceled))
                   /\ UNCHANGED <<attempt, targetDir, xfer>>
    /\ UNCHANGED <<requests, maxWorkers, cacheOn, cacheDir, started, waited, results,
                   dpc, dout, putCalls>>

\* io.Copy in goroutine i: the next chunk of the body goes to the temporary
\* file, or the copy (or the Close after it) fails and the file is removed
Copy(i) ==
    /\ task[i] = "copying"
    /\ \E copied \in BOOLEAN :
        IF copied
        THEN /\ xfer[i].off < Len(xfer[i].body)
             /\ targetDir' = WriteAt(targetDir, xfer[i].fd, xfer[i].off,
                                     xfer[i].body[xfer[i].off + 1])
             /\ xfer' = [xfer EXCEPT ![i].off = @ + 1]
             /\ UNCHANGED <<task, terr, gerr, canceled>>
        ELSE /\ xfer' = [xfer EXCEPT ![i] = NoXfer]
             /\ targetDir' = Sweep(Remove(targetDir, TmpPath(requests[i].Filename)),
                                   OpenFiles(xfer'))
             /\ Fail(i, TaskError("writing", i, canceled))
    /\ UNCHANGED <<requests, maxWorkers, cacheOn, cacheDir, started, attempt, resp,
                   waited, results, dpc, dout, putCalls>>

\* the rest of doDownload in goroutine i, once the body is copied and the
\* file closed: the digest is verified and the file renamed to its final
\* path; then the wheel goes to the cache and the result to results[i]
Finish(i) ==
    /\ task[i] = "copying"
    /\ xfer[i].off = Len(xfer[i].body)
    /\ LET req == requests[i]
           r == Rename(targetDir, TmpPath(req.Filename), Path(req.Filename))
           p == Put(cacheDir, Content(r.dir, Path(req.Filename)), req.Filename, i)
       IN /\ xfer' = [xfer EXCEPT ![i] = NoXfer]
          /\ IF ~Verify(req, xfer[i].body)
             THEN /\ targetDir' = Sweep(Remove(targetDir, TmpPath(req.Filename)),
                                        OpenFiles(xfer'))
                  /\ Fail(i, TaskError("sha256 mismatch", i, FALSE))
                  /\ UNCHANGED <<results, cacheDir, putCalls>>
             ELSE IF ~r.ok
             THEN /\ targetDir' = Sweep(Remove(targetDir, TmpPath(req.Filename)),
                                        OpenFiles(xfer'))
                  /\ Fail(i, TaskError("renaming", i, FALSE))
                  /\ UNCHANGED <<results, cacheDir, putCalls>>
             ELSE /\ targetDir' = Sweep(r.dir, OpenFiles(xfer'))
                  /\ cacheDir' = IF cacheOn THEN p.dir ELSE cacheDir
                  /\ putCalls' = IF cacheOn
                                 THEN [putCalls EXCEPT ![i] =
                                          Append(@, [filename |-> req.Filename,
                                                     ok |-> p.ok])]
                                 ELSE putCalls
                  /\ results' = StoreResult(results, i,
                         [Name |-> req.Name, Version |-> req.Version,
                          FilePath |-> In("target", Path(req.Filename)),
                          Size |-> Len(xfer[i].body), Cached |-> FALSE])
                  /\ task' = [task EXCEPT ![i] = "done"]
                  /\ UNCHANGED <<terr, gerr, canceled>>
    /\ UNCHANGED <<requests, maxWorkers, cacheOn, started, attempt, resp, waited,
                   dpc, dout>>

\* the select before a retry: the timer fires
BackoffOver(i) ==
    /\ task[i] = "backoff"
    /\ task' = [task EXCEPT ![i] = "running"]
    /\ waited' = [waited EXCEPT ![i] = Append(@, Backoff(attempt[i]))]
    /\ UNCHANGED <<requests, maxWorkers, cacheOn, cacheDir, targetDir, started,
                   attempt, xfer, resp, terr, results, canceled, gerr, dpc, dout, putCalls>>

\* the select before a retry: the context is done
BackoffCanceled(i) ==
    /\ task[i] = "backoff"
    /\ canceled
    /\ Fail(i, TaskError("download canceled", i, TRUE))
    /\ UNCHANGED <<requests, maxWorkers, cacheOn, cacheDir, targetDir, started,
                   attempt, xfer, resp, waited, results, dpc, dout, putCalls>>

\* g.Wait once every goroutine was started and has returned, and the return
\* of Download
Wait ==
    /\ dpc = "spawn"
    /\ started = Len(requests)
    /\ Active = {}
    /\ dpc' = "returned"
    /\ canceled' = TRUE
    /\ dout' = IF gerr # NoError THEN [results |-> <<>>, err |-> gerr]
               ELSE [results |-> results, err |-> NoError]
    /\ UNCHANGED <<requests, maxWorkers, cacheOn, cacheDir, targetDir, started, task,
                   attempt, xfer, resp, waited, terr, results, gerr, putCalls>>

(***************************************************************************)
(* Concurrent callers of cache.Manager.Put (README.md), one call each, on  *)
(* one cache directory.  Every source file holds the same bytes.           *)
(***************************************************************************)
NoPut == [pc |-> "create", file |-> "", fd |-> 0, off |-> 0, err |-> ""]

\* the descriptors the writers hold open in the cache directory
OpenPuts(p) == {p[w].fd : w \in {v \in 1..Len(p) : p[v].fd # 0}}

\* the inode a writer's temporary file gets when it is a new file
PutInode(w) == 10 + w

CacheInit ==
    /\ cacheDir \in {EmptyDir, CacheWith(Bad, Bad)}
    /\ \E n \in 1..MaxWriters :
           puts \in [1..n -> {[NoPut EXCEPT !.file = f] : f \in {"pkg-a", "pkg-b"}}]

\* Put of writer w returns the error err: the temporary file is removed
\* when it was created
PutFail(w, created, err) ==
    /\ puts' = [puts EXCEPT ![w].pc = "failed", ![w].fd = 0, ![w].err = err]
    /\ cacheDir' = IF created
                   THEN Sweep(Remove(cacheDir, TmpPath(puts[w].file)), OpenPuts(puts'))
                   ELSE cacheDir

\* os.Open(srcPath) and os.Create(tmpPath)
PutCreate(w) ==
    /\ puts[w].pc = "create"
    /\ \E opened \in BOOLEAN :
        LET c == Create(cacheDir, TmpPath(puts[w].file), PutInode(w))
        IN IF opened /\ c.ok
           THEN /\ cacheDir' = c.dir
                /\ puts' = [puts EXCEPT ![w].pc = "copy", ![w].fd = c.fd]
           ELSE PutFail(w, FALSE, IF opened THEN "creating temp file"
                                  ELSE "opening source")

\* io.Copy(dst, src): the next chunk is written, or the copy fails
PutCopy(w) ==
    /\ puts[w].pc = "copy"
    /\ \E copied \in BOOLEAN :
        IF copied
        THEN /\ puts[w].off < Len(Good)
             /\ cacheDir' = WriteAt(cacheDir, puts[w].fd, puts[w].off,
                                    Good[puts[w].off + 1])
             /\ puts' = [puts EXCEPT ![w].off = @ + 1]
        ELSE PutFail(w, TRUE, "copying to cache")

\* dst.Close() and os.Rename(tmpPath, dstPath)
PutRename(w) ==
    /\ puts[w].pc = "copy"
    /\ puts[w].off = Len(Good)
    /\ \E closed \in BOOLEAN :
        LET r == Rename(cacheDir, TmpPath(puts[w].file), Path(puts[w].file))
        IN IF closed /\ r.ok
           THEN /\ puts' = [puts EXCEPT ![w].pc = "done", ![w].fd = 0]
                /\ cacheDir' = Sweep(r.dir, OpenPuts(puts'))
           ELSE PutFail(w, TRUE, IF closed THEN "renaming cache file"
                                 ELSE "closing temp file")

(***************************************************************************)
(* Wheel filenames and tag selection (downloader: ParseWheelFilename,      *)
(* SelectWheel).  A filename or a tag field is a sequence of symbols: the  *)
(* separators "-" and "." and the runs of other characters between them.   *)
(***************************************************************************)
\* the index of the first symbol of s that is sep, 0 when there is none
IndexOf(s, sep) ==
    IF \E k \in 1..Len(s) : s[k] = sep
    THEN CHOOSE k \in 1..Len(s) : s[k] = sep /\ \A j \in 1..(k - 1) : s[j] # sep
    ELSE 0

RECURSIVE Split(_, _)
\* strings.Split(s, sep)
Split(s, sep) ==
    IF IndexOf(s, sep) = 0 THEN <<s>>
    ELSE <<SubSeq(s, 1, IndexOf(s, sep) - 1)>>
         \o Split(SubSeq(s, IndexOf(s, sep) + 1, Len(s)), sep)

RECURSIVE JoinWith(_, _)
\* strings.Join(parts, sep)
JoinWith(parts, sep) ==
    IF parts = <<>> THEN <<>>
    ELSE IF Len(parts) = 1 THEN parts[1]
    ELSE parts[1] \o <<sep>> \o JoinWith(Tail(parts), sep)

HasSuffix(s, suffix) ==
    /\ Len(s) >= Len(suffix)
    /\ SubSeq(s, Len(s) - Len(suffix) + 1, Len(s)) = suffix

\* strings.TrimSuffix(s, suffix)
TrimSuffix(s, suffix) ==
    IF HasSuffix(s, suffix) THEN SubSeq(s, 1, Len(s) - Len(suffix)) ELSE s

\* ".whl"
WhlSuffix == <<".", "whl">>

\* WheelTag
WheelTag(py, abi, plat) == [Python |-> py, ABI |-> abi, Platform |-> plat]

\* WheelTag{}
ZeroTag == WheelTag(EmptyString, EmptyString, EmptyString)

ParseWheelFilenameFirstFive(filename) ==
    LET parts == Split(TrimSuffix(filename, WhlSuffix), "-")
    IN IF Len(parts) < 5
       THEN [name |-> EmptyString, version |-> EmptyString, tag |-> ZeroTag,
             err |-> TRUE]
       ELSE [name |-> parts[1], version |-> parts[2],
             tag |-> WheelTag(parts[3], parts[4], parts[5]), err |-> FALSE]

\* ParseWheelFilename: name, version, tag and whether it returned an error
ParseWheelFilename(filename) ==
    LET parts == Split(TrimSuffix(filename, WhlSuffix), "-")
    IN IF Len(parts) < 5
       THEN [name |-> EmptyString, version |-> EmptyString, tag |-> ZeroTag,
             err |-> TRUE]
       ELSE [name |-> parts[1], version |-> parts[2],
             tag |-> WheelTag(parts[Len(parts) - 2], parts[Len(parts) - 1],
                              parts[Len(parts)]),
             err |-> FALSE]

fieldMatchesWhole(wheelField, compatValue) == wheelField = compatValue

\* fieldMatches: compatValue is one of the values of wheelField
fieldMatches(wheelField, compatValue) ==
    \E k \in 1..Len(Split(wheelField, ".")) : Split(wheelField, ".")[k] = compatValue

\* tagMatches
tagMatches(wheel, compat) ==
    /\ fieldMatches(wheel.Python, compat.Python)
    /\ fieldMatches(wheel.ABI, compat.ABI)
    /\ fieldMatches(wheel.Platform, compat.Platform)

\* the fields of a wheel filename
Distributions == {<<"pkg">>, <<"six">>}
WheelVersions == {<<"1", ".", "0">>, <<"2">>}
BuildTags == {EmptyString, <<"1">>}
Interpreters == {<<"py3">>, <<"py2", ".", "py3">>, <<"cp312">>}
ABIs == {<<"none">>, <<"cp312">>, <<"abi3">>}
Platforms == {<<"any">>, <<"manylinux_2_17_x86_64">>,
              <<"manylinux_2_17_x86_64", ".", "manylinux2014_x86_64">>}

\* {distribution}-{version}(-{buildtag})?-{interpreter}-{abi}-{platform}.whl
WheelFilename(d, v, b, i, a, p) ==
    JoinWith(<<d, v>> \o (IF b = EmptyString THEN <<>> ELSE <<b>>) \o <<i, a, p>>, "-")
    \o WhlSuffix

\* the fields a filename is written from
Fields(d, v, b, i, a, p) ==
    [distribution |-> d, version |-> v, buildtag |-> b, interpreter |-> i,
     abi |-> a, platform |-> p]

NoFields == [distribution |-> EmptyString]

GrammarFields ==
    {Fields(d, v, b, i, a, p) : d \in Distributions, v \in WheelVersions,
                                b \in BuildTags, i \in Interpreters,
                                a \in ABIs, p \in Platforms}

FilenameOf(f) ==
    WheelFilename(f.distribution, f.version, f.buildtag, f.interpreter, f.abi,
                  f.platform)

\* names with fewer than five parts: the ones TestParseWheelFilenameInvalid
\* lists
ShortFilenames ==
    {<<"flask", "-", "3", ".", "0", ".", "0", ".", "tar", ".", "gz">>,
     <<"flask", ".", "whl">>,
     <<"flask", "-", "3", ".", "0", ".", "0", ".", "whl">>,
     <<"too", "-", "few", "-", "parts", ".", "whl">>,
     <<"pkg", "-", "1", "-", "py3", "-", "none", ".", "whl">>}

\* pypi.URL
URL(filename, packageType, url) ==
    [Filename |-> filename, PackageType |-> packageType, URL |-> url]

\* pypi.URL{}
ZeroURL == URL(EmptyString, "", "")

\* the release files SelectWheel is handed: wheels for three targets, the
\* same pure wheel from a second URL, a build-tagged wheel, a wheel for
\* another platform, a source distribution and a file typed as a wheel
\* whose name is none
URLPool ==
    {URL(WheelFilename(<<"pkg">>, <<"1", ".", "0">>, EmptyString, <<"cp312">>,
                       <<"cp312">>, <<"manylinux_2_17_x86_64">>),
         "bdist_wheel", "manylinux.whl"),
     URL(WheelFilename(<<"pkg">>, <<"1", ".", "0">>, EmptyString, <<"py3">>,
                       <<"none">>, <<"any">>),
         "bdist_wheel", "pure.whl"),
     URL(WheelFilename(<<"pkg">>, <<"1", ".", "0">>, EmptyString, <<"py3">>,
                       <<"none">>, <<"any">>),
         "bdist_wheel", "mirror/pure.whl"),
     URL(WheelFilename(<<"pkg">>, <<"1", ".", "0">>, <<"1">>,
                       <<"py2", ".", "py3">>, <<"none">>, <<"any">>),
         "bdist_wheel", "compound.whl"),
     URL(WheelFilename(<<"pkg">>, <<"1", ".", "0">>, EmptyString, <<"cp311">>,
                       <<"cp311">>, <<"win_amd64">>),
         "bdist_wheel", "win.whl"),
     URL(<<"pkg", "-", "1", ".", "0", ".", "tar", ".", "gz">>, "sdist",
         "sdist.tar.gz"),
     URL(<<"pkg", ".", "whl">>, "bdist_wheel", "short.whl")}

\* the entries of a priority list
CompatTagPool ==
    {WheelTag(<<"cp312">>, <<"cp312">>, <<"manylinux_2_17_x86_64">>),
     WheelTag(<<"cp312">>, <<"none">>, <<"any">>),
     WheelTag(<<"py3">>, <<"none">>, <<"any">>)}

NoParse == [name |-> EmptyString, version |-> EmptyString, tag |-> ZeroTag,
            err |-> FALSE]

NoSelect == [url |-> ZeroURL, err |-> ""]

\* where the scan of compatTags for a wheel with this tag stops: the index
\* (from 0) of the first entry below bound that matches, bound when none
\* does
FirstCompat(tag, tags, bound) ==
    IF \E i \in 0..(bound - 1) : tagMatches(tag, tags[i + 1])
    THEN CHOOSE i \in 0..(bound - 1) :
             /\ tagMatches(tag, tags[i + 1])
             /\ \A j \in 0..(i - 1) : ~tagMatches(tag, tags[j + 1])
    ELSE bound

WheelInit ==
    /\ \/ /\ wop = "parse"
          /\ \/ wsrc \in GrammarFields /\ wfile = FilenameOf(wsrc)
             \/ wsrc = NoFields /\ wfile \in ShortFilenames
          /\ urls = <<>>
          /\ compatTags = <<>>
       \/ /\ wop = "select"
          /\ wsrc = NoFields
          /\ wfile = EmptyString
          /\ urls \in SeqsUpTo(URLPool, MaxURLs)
          /\ compatTags \in SeqsUpTo(CompatTagPool, MaxCompatTags)
    /\ wpc = "call"
    /\ ui = 0
    /\ bestPriority = Len(compatTags)
    /\ bestURL = ZeroURL
    /\ found = FALSE
    /\ wparsed = NoParse
    /\ wout = NoSelect

\* a call of ParseWheelFilename(wfile)
ParseCall ==
    /\ wop = "parse"
    /\ wpc = "call"
    /\ wparsed' = ParseWheelFilename(wfile)
    /\ wpc' = "returned"
    /\ UNCHANGED <<wop, wsrc, wfile, urls, compatTags, ui, bestPriority, bestURL,
                   found, wout>>

\* one pass of the loop of SelectWheel over urls: the file at ui
Scan ==
    /\ wop = "select"
    /\ wpc = "call"
    /\ ui < Len(urls)
    /\ LET u == urls[ui + 1]
           p == ParseWheelFilename(u.Filename)
           i == FirstCompat(p.tag, compatTags, bestPriority)
           skip == u.PackageType # "bdist_wheel" \/ p.err
           best == IF ~skip /\ i < bestPriority THEN i ELSE bestPriority
       IN /\ bestPriority' = best
          /\ bestURL' = IF ~skip /\ i < bestPriority THEN u ELSE bestURL
          /\ found' = (found \/ (~skip /\ i < bestPriority))
          /\ ui' = IF ~skip /\ best = 0 THEN Len(urls) ELSE ui + 1
    /\ UNCHANGED <<wop, wsrc, wfile, urls, compatTags, wpc, wparsed, wout>>

\* the end of SelectWheel
SelectReturn ==
    /\ wop = "select"
    /\ wpc = "call"
    /\ ui = Len(urls)
    /\ wout' = IF found THEN [url |-> bestURL, err |-> ""]
               ELSE [url |-> ZeroURL, err |-> "no compatible wheel found"]
    /\ wpc' = "returned"
    /\ UNCHANGED <<wop, wsrc, wfile, urls, compatTags, ui, bestPriority, bestURL,
                   found, wparsed>>

WheelIdle ==
    /\ wop = "idle"
    /\ wsrc = NoFields
    /\ wfile = EmptyString
    /\ urls = <<>>
    /\ compatTags = <<>>
    /\ wpc = "idle"
    /\ ui = 0
    /\ bestPriority = 0
    /\ bestURL = ZeroURL
    /\ found = FALSE
    /\ wparsed = NoParse
    /\ wout = NoSelect

(***************************************************************************)
(* installer.Service.Install (installer.go, record.go, entrypoints.go).    *)
(* A path is the sequence of its segments; an absolute path starts with    *)
(* the root "/".  A file body is a sequence of lines, each a record; the   *)
(* size of a file is the length of its body.                               *)
(***************************************************************************)
RECURSIVE CleanOnto(_, _)
\* filepath.Clean, segment by segment: "." is dropped and ".." takes the
\* last segment away, except the root
CleanOnto(acc, rest) ==
    IF rest = <<>> THEN acc
    ELSE CleanOnto(IF Head(rest) = "." THEN acc
                   ELSE IF Head(rest) = ".."
                   THEN (IF Len(acc) <= 1 THEN acc ELSE SubSeq(acc, 1, Len(acc) - 1))
                   ELSE Append(acc, Head(rest)),
                   Tail(rest))

\* filepath.Join(base, rel...) for an absolute base
Join(base, rel) == CleanOnto(<<>>, base \o rel)

\* filepath.Dir and filepath.Base
Dir(path) == SubSeq(path, 1, Len(path) - 1)
Base(path) == path[Len(path)]

\* the number of leading segments two paths share
CommonLen(a, b) ==
    CHOOSE k \in 0..Len(a) :
        /\ k <= Len(b)
        /\ SubSeq(a, 1, k) = SubSeq(b, 1, k)
        /\ (k < Len(a) /\ k < Len(b)) => a[k + 1] # b[k + 1]

\* filepath.Rel(base, targ) for two absolute, clean paths
Rel(base, targ) ==
    [i \in 1..(Len(base) - CommonLen(base, targ)) |-> ".."]
    \o SubSeq(targ, CommonLen(base, targ) + 1, Len(targ))

\* isInsideDir: dir itself or a path below it
isInsideDir(path, dir) ==
    /\ Len(path) >= Len(dir)
    /\ SubSeq(path, 1, Len(dir)) = dir

\* python.Environment: a virtual environment as the tests build it, and the
\* same with site-packages replaced by the directory of --target
Environment(prefix, sitePackages) ==
    [PythonPath |-> "python3", Prefix |-> prefix, SitePackages |-> sitePackages]

VenvEnv == Environment(<<"/", "venv">>,
                       <<"/", "venv", "lib", "python3.12", "site-packages">>)
TargetEnv == Environment(<<"/", "venv">>, <<"/", "target">>)
Environments == {VenvEnv, TargetEnv}

\* the segments whose name ends in ".data" and in ".dist-info"
DataSuffixed == {"pkg-1.0.data", "assets.data"}
DistInfoSuffixed == {"pkg-1.0.dist-info"}

\* fileCategory
categorySitePackages == "categorySitePackages"
categoryScripts == "categoryScripts"
categoryData == "categoryData"
categorySkip == "categorySkip"

\* strings.Index(name, ".data/"): the first segment that ends in ".data" and
\* has a segment after it, 0 for none
dataIndex(name) ==
    IF \E k \in 1..(Len(name) - 1) : name[k] \in DataSuffixed
    THEN CHOOSE k \in 1..(Len(name) - 1) :
             /\ name[k] \in DataSuffixed
             /\ \A j \in 1..(k - 1) : name[j] \notin DataSuffixed
    ELSE 0

\* resolveDestination: the destination and the category of the entry name;
\* the destination is empty for an entry that is skipped
resolveDestination(name, e) ==
    LET remainder == SubSeq(name, dataIndex(name) + 1, Len(name))
        subdir == remainder[1]
        rest == Tail(remainder)
        skip == [destPath |-> EmptyString, category |-> categorySkip]
    IN IF dataIndex(name) = 0
       THEN [destPath |-> Join(e.SitePackages, name),
             category |-> categorySitePackages]
       ELSE IF Len(remainder) < 2 THEN skip
       ELSE IF subdir \in {"purelib", "platlib"}
       THEN [destPath |-> Join(e.SitePackages, rest),
             category |-> categorySitePackages]
       ELSE IF subdir = "scripts"
       THEN [destPath |-> Join(e.Prefix, <<"bin">> \o rest),
             category |-> categoryScripts]
       ELSE IF subdir = "data"
       THEN [destPath |-> Join(e.Prefix, rest), category |-> categoryData]
       ELSE IF subdir = "headers"
       THEN [destPath |-> Join(e.Prefix, <<"include">> \o rest),
             category |-> categoryData]
       ELSE skip

\* baseForCategory
baseForCategory(cat, e) ==
    IF cat \in {categoryScripts, categoryData} THEN e.Prefix ELSE e.SitePackages

trackDistInfoAlways(name, siteDir, dir) == Join(siteDir, <<name[1]>>)

\* the tracking of the dist-info directory in the loop of installWheel
trackDistInfo(name, siteDir, dir) ==
    IF \E k \in 1..(Len(name) - 1) : name[k] \in DistInfoSuffixed
    THEN Join(siteDir, <<name[1]>>)
    ELSE dir

\* ---- the file system of the target environment: path -> [body, exec]
\* path is a directory: the environment's own, or one with a file below it
IsDir(d, e, path) ==
    \/ isInsideDir(e.Prefix, path)
    \/ isInsideDir(e.SitePackages, path)
    \/ \E p \in DOMAIN d : Len(p) > Len(path) /\ isInsideDir(p, path)

\* os.MkdirAll(path) cannot succeed: a file is in the way
Blocked(d, path) == \E k \in 1..Len(path) : SubSeq(path, 1, k) \in DOMAIN d

\* os.Create / os.WriteFile and the write of the whole body: a file that
\* exists keeps its mode
WriteFile(d, path, body, mode) ==
    MapPut(d, path, [body |-> body,
                     exec |-> IF path \in DOMAIN d THEN d[path].exec ELSE mode])

\* extractFile
extractFile(d, destPath, body) == WriteFile(d, destPath, body, FALSE)

\* os.Chmod(path, 0o755)
Chmod(d, path) == [d EXCEPT ![path].exec = TRUE]

\* fmt.Sprintf("%d", size), and the empty field
FormatSize(n) == <<n>>

\* RecordEntry
RecordEntry(path, hash, size) == [Path |-> path, Hash |-> hash, Size |-> size]

\* HashFile: "sha256=" and the hex digest, and the size
HashFile(d, path) ==
    [hash |-> <<"sha256=", Sha256Hex(d[path].body)>>, size |-> Len(d[path].body)]

\* WriteInstaller
WriteInstaller(d, distDir) ==
    WriteFile(d, Join(distDir, <<"INSTALLER">>), <<[text |-> "pipg"]>>, FALSE)

\* WriteRecord: a row per entry, then the row of RECORD itself
WriteRecord(d, distDir, entries) ==
    WriteFile(d, Join(distDir, <<"RECORD">>),
              [k \in 1..Len(entries) |->
                  [Path |-> entries[k].Path, Hash |-> entries[k].Hash,
                   Size |-> FormatSize(entries[k].Size)]]
              \o <<[Path |-> <<Base(distDir), "RECORD">>, Hash |-> EmptyString,
                    Size |-> EmptyString]>>,
              FALSE)

\* ---- entry_points.txt: a line is [tokens], the symbols of the trimmed line
Line(tokens) == [tokens |-> tokens]

\* parseScriptEntry
parseScriptEntry(tokens) ==
    LET eq == IndexOf(tokens, "=")
        whole == SubSeq(tokens, eq + 1, Len(tokens))
        value == IF IndexOf(whole, "[") > 0
                 THEN SubSeq(whole, 1, IndexOf(whole, "[") - 1) ELSE whole
        colon == IndexOf(value, ":")
    IN IF eq = 0 \/ colon = 0 THEN [err |-> TRUE]
       ELSE [err |-> FALSE,
             Name |-> IF eq = 1 THEN "" ELSE tokens[1],
             Module |-> SubSeq(value, 1, colon - 1),
             Attr |-> SubSeq(value, colon + 1, Len(value))]

RECURSIVE ScanEntryPointsAnySection(_, _)
ScanEntryPointsAnySection(lines, inConsoleScripts) ==
    IF lines = <<>> THEN <<>>
    ELSE LET t == Head(lines).tokens
         IN IF t = <<>> \/ t[1] \in {"#", "["} \/ parseScriptEntry(t).err
            THEN ScanEntryPointsAnySection(Tail(lines), inConsoleScripts)
            ELSE <<parseScriptEntry(t)>>
                 \o ScanEntryPointsAnySection(Tail(lines), inConsoleScripts)

RECURSIVE ScanEntryPoints(_, _)
\* the loop of ParseEntryPoints over the lines left
ScanEntryPoints(lines, inConsoleScripts) ==
    IF lines = <<>> THEN <<>>
    ELSE LET t == Head(lines).tokens
         IN IF t = <<>> \/ t[1] = "#"
            THEN ScanEntryPoints(Tail(lines), inConsoleScripts)
            ELSE IF t[1] = "["
            THEN ScanEntryPoints(Tail(lines), t = <<"[", "console_scripts", "]">>)
            ELSE IF ~inConsoleScripts \/ parseScriptEntry(t).err
            THEN ScanEntryPoints(Tail(lines), inConsoleScripts)
            ELSE <<parseScriptEntry(t)>>
                 \o ScanEntryPoints(Tail(lines), inConsoleScripts)

\* ParseEntryPoints: no file, no scripts
ParseEntryPoints(d, path) ==
    IF path \in DOMAIN d THEN ScanEntryPoints(d[path].body, FALSE) ELSE <<>>

\* GenerateScript
GenerateScript(pythonPath, cs) ==
    <<[shebang |-> pythonPath, module |-> cs.Module, attr |-> cs.Attr]>>

RECURSIVE WriteScripts(_, _, _, _)
\* the loop of InstallConsoleScripts: the launchers are written
WriteScripts(d, binDir, pythonPath, scripts) ==
    IF scripts = <<>> THEN d
    ELSE WriteScripts(WriteFile(d, Join(binDir, <<Head(scripts).Name>>),
                                GenerateScript(pythonPath, Head(scripts)), TRUE),
                      binDir, pythonPath, Tail(scripts))

\* the records the loop of InstallConsoleScripts returns, read off the
\* directory at d: HashFile runs right after each launcher is written
ScriptRecords(binDir, pythonPath, scripts) ==
    [k \in 1..Len(scripts) |->
        RecordEntry(<<"..", "..", "..", "bin", scripts[k].Name>>,
                    <<"sha256=", Sha256Hex(GenerateScript(pythonPath, scripts[k]))>>,
                    Len(GenerateScript(pythonPath, scripts[k])))]

\* ---- the wheels
Text(t) == <<[text |-> t]>>

DistInfo == "pkg-1.0.dist-info"
DataDir == "pkg-1.0.data"

\* zip.File: a regular file of the archive
Entry(name, body) == [Name |-> name, Body |-> body]

\* the entries an archive is made of: a module, the dist-info files (the
\* wheel's own RECORD, an INSTALLER and two entry_points.txt among them),
\* one file per .data
\* bucket, a module that comes a second time through purelib, a directory
\* of the package named like a .data directory, two entries that climb
\* out of their base and a script that climbs out of bin
EntryPool ==
    {Entry(<<"pkg", "__init__.py">>, Text("init")),
     Entry(<<DistInfo, "METADATA">>, Text("metadata")),
     Entry(<<DistInfo, "RECORD">>, Text("record")),
     Entry(<<DistInfo, "INSTALLER">>, Text("pip")),
     Entry(<<DistInfo, "entry_points.txt">>,
           <<Line(<<"[", "console_scripts", "]">>),
             Line(<<"cli", "=", "pkg", ":", "main">>)>>),
     Entry(<<DistInfo, "entry_points.txt">>,
           <<Line(<<"#", "entry", "points">>),
             Line(<<"[", "gui_scripts", "]">>),
             Line(<<"gui", "=", "pkg", ":", "gui">>),
             Line(<<>>),
             Line(<<"[", "console_scripts", "]">>),
             Line(<<"tool", "=", "pkg", ".", "tools", ":", "run", "[", "extra", "]">>),
             Line(<<"bad", "=", "pkg">>),
             Line(<<"[", "other", "]">>),
             Line(<<"x", "=", "pkg", ":", "x">>)>>),
     Entry(<<DataDir, "scripts", "cli">>, Text("script")),
     Entry(<<DataDir, "data", "etc", "pkg.conf">>, Text("conf")),
     Entry(<<DataDir, "headers", "pkg.h">>, Text("header")),
     Entry(<<DataDir, "purelib", "pkg", "__init__.py">>,
           Text("init") \o Text("more")),
     Entry(<<DataDir, "docs", "readme">>, Text("readme")),
     Entry(<<"pkg", "assets.data", "logo.png">>, Text("logo")),
     Entry(<<"..", "evil.py">>, Text("evil")),
     Entry(<<DataDir, "data", "..", "..", "evil">>, Text("evil")),
     Entry(<<DataDir, "scripts", "..", "lib", "evil.py">>, Text("evil"))}

\* the archives of up to n entries
Archives(n) == UNION {[1..k -> EntryPool] : k \in 0..n}

\* downloader.Result, and the archive at its FilePath
Wheel(entries) == [Name |-> "pkg", entries |-> entries]

\* the arguments of Install: one wheel of up to MaxEntries entries, or up to
\* MaxWheels wheels of one entry
DownloadLists ==
    {<<>>}
    \cup {<<Wheel(a)>> : a \in Archives(MaxEntries)}
    \cup {[k \in 1..Len(s) |-> Wheel(s[k])] :
              s \in {t \in SeqsUpTo(Archives(1), MaxWheels) : Len(t) >= 2}}

\* what can go wrong in the file system while an entry is extracted, and at
\* the end of installWheel
EntryFaults == {"none", "mkdir", "create", "copy", "chmod", "hash"}
FinishFaults == {"none", "installer", "hash", "scripts", "scripts late", "record"}

NoInstallError == [kind |-> "none", wheel |-> 0]

\* an event of the history of a wheel: an entry written or skipped, or a
\* file the installer wrote of its own
Event(kind, name, path) == [kind |-> kind, name |-> name, path |-> path]

InstallInit ==
    /\ pyenv \in Environments
    /\ downloads \in DownloadLists
    /\ ictx = FALSE
    /\ disk = EmptyMap
    /\ ipc = "loop"
    /\ wi = 0
    /\ ei = 0
    /\ records = <<>>
    /\ distInfoDir = EmptyString
    /\ ierr = NoInstallError
    /\ log = [w \in 1..Len(downloads) |-> <<>>]

\* the caller cancels the context it handed to Install
InstallCancel ==
    /\ ipc \in {"loop", "entries"}
    /\ ~ictx
    /\ ictx' = TRUE
    /\ UNCHANGED <<pyenv, downloads, disk, ipc, wi, ei, records, distInfoDir, ierr, log>>

ctxErrNever(done) == FALSE

\* ctx.Err() # nil
ctxErr(done) == done

\* installWheel or Install returns the error kind for the wheel at wi + 1
InstallFail(kind) ==
    /\ ipc' = "returned"
    /\ ierr' = [kind |-> kind, wheel |-> wi + 1]

\* the head of the loop of Install for the next wheel: the context is
\* tested, then installWheel opens the archive
BeginWheel ==
    /\ ipc = "loop"
    /\ wi < Len(downloads)
    /\ \E opened \in BOOLEAN :
        IF ctxErr(ictx)
        THEN opened /\ InstallFail("installation canceled")
                    /\ UNCHANGED <<ei, records, distInfoDir>>
        ELSE IF ~opened
        THEN InstallFail("opening wheel") /\ UNCHANGED <<ei, records, distInfoDir>>
        ELSE /\ ipc' = "entries"
             /\ ei' = 0
             /\ records' = <<>>
             /\ distInfoDir' = EmptyString
             /\ UNCHANGED ierr
    /\ UNCHANGED <<pyenv, downloads, ictx, disk, wi, log>>

\* one pass of the loop of installWheel over r.File: the entry at ei
ExtractEntry ==
    /\ ipc = "entries"
    /\ ei < Len(downloads[wi + 1].entries)
    /\ \E fault \in EntryFaults, kept \in 0..1 :
        LET f == downloads[wi + 1].entries[ei + 1]
            r == resolveDestination(f.Name, pyenv)
            base == baseForCategory(r.category, pyenv)
            extracted == extractFile(disk, r.destPath, f.Body)
            full == IF r.category = categoryScripts
                    THEN Chmod(extracted, r.destPath) ELSE extracted
            h == HashFile(full, r.destPath)
            written == Event("entry", f.Name, r.destPath)
        IN IF r.destPath = EmptyString
           THEN /\ fault = "none" /\ kept = 0
                /\ ei' = ei + 1
                /\ log' = [log EXCEPT ![wi + 1] = Append(@, Event("skip", f.Name,
                                                                   EmptyString))]
                /\ UNCHANGED <<disk, ipc, records, distInfoDir, ierr>>
           ELSE IF ~isInsideDir(r.destPath, base)
           THEN /\ fault = "none" /\ kept = 0
                /\ InstallFail("zip slip detected")
                /\ UNCHANGED <<disk, ei, records, distInfoDir, log>>
           ELSE IF fault = "mkdir" \/ Blocked(disk, Dir(r.destPath))
           THEN /\ kept = 0
                /\ InstallFail("creating directory")
                /\ UNCHANGED <<disk, ei, records, distInfoDir, log>>
           ELSE IF fault = "create" \/ IsDir(disk, pyenv, r.destPath)
           THEN /\ kept = 0
                /\ InstallFail("extracting")
                /\ UNCHANGED <<disk, ei, records, distInfoDir, log>>
           ELSE IF fault = "copy"
           THEN /\ kept < Len(f.Body)
                /\ disk' = extractFile(disk, r.destPath, SubSeq(f.Body, 1, kept))
                /\ log' = [log EXCEPT ![wi + 1] = Append(@, written)]
                /\ InstallFail("extracting")
                /\ UNCHANGED <<ei, records, distInfoDir>>
           ELSE IF fault = "chmod"
           THEN /\ kept = 0
                /\ r.category = categoryScripts
                /\ disk' = extracted
                /\ log' = [log EXCEPT ![wi + 1] = Append(@, written)]
                /\ InstallFail("setting executable permission")
                /\ UNCHANGED <<ei, records, distInfoDir>>
           ELSE IF fault = "hash"
           THEN /\ kept = 0
                /\ disk' = full
                /\ log' = [log EXCEPT ![wi + 1] = Append(@, written)]
                /\ InstallFail("hashing")
                /\ UNCHANGED <<ei, records, distInfoDir>>
           ELSE /\ kept = 0
                /\ disk' = full
                /\ log' = [log EXCEPT ![wi + 1] = Append(@, written)]
                /\ distInfoDir' = trackDistInfo(f.Name, pyenv.SitePackages, distInfoDir)
                /\ records' = Append(records,
                                     RecordEntry(Rel(pyenv.SitePackages, r.destPath),
                                                 h.hash, h.size))
                /\ ei' = ei + 1
                /\ UNCHANGED <<ipc, ierr>>
    /\ UNCHANGED <<pyenv, downloads, ictx, wi>>

\* the rest of installWheel, after the loop: the dist-info directory is
\* required, INSTALLER is written, the launchers are generated and RECORD
\* is written; back in Install, the loop goes on to the next wheel
FinishWheel ==
    /\ ipc = "entries"
    /\ ei = Len(downloads[wi + 1].entries)
    /\ \E fault \in FinishFaults :
        LET installerPath == Join(distInfoDir, <<"INSTALLER">>)
            binDir == Join(pyenv.Prefix, <<"bin">>)
            d1 == WriteInstaller(disk, distInfoDir)
            h == HashFile(d1, installerPath)
            recs1 == Append(records,
                            RecordEntry(Rel(pyenv.SitePackages, installerPath),
                                        h.hash, h.size))
            scripts == ParseEntryPoints(d1, Join(distInfoDir, <<"entry_points.txt">>))
            d2 == WriteScripts(d1, binDir, pyenv.PythonPath, scripts)
            recs2 == recs1 \o ScriptRecords(binDir, pyenv.PythonPath, scripts)
            d3 == WriteRecord(d2, distInfoDir, recs2)
            ev1 == Append(log[wi + 1], Event("installer", EmptyString, installerPath))
            ev2 == ev1 \o [k \in 1..Len(scripts) |->
                              Event("launcher", <<scripts[k].Name>>,
                                    Join(binDir, <<scripts[k].Name>>))]
            ev3 == Append(ev2, Event("record", EmptyString,
                                     Join(distInfoDir, <<"RECORD">>)))
        IN IF distInfoDir = EmptyString
           THEN /\ fault = "none"
                /\ InstallFail("no .dist-info directory found")
                /\ UNCHANGED <<disk, wi, ei, records, log>>
           ELSE IF fault = "installer" \/ ~IsDir(disk, pyenv, distInfoDir)
                   \/ IsDir(disk, pyenv, installerPath)
           THEN /\ InstallFail("writing INSTALLER")
                /\ UNCHANGED <<disk, wi, ei, records, log>>
           ELSE IF fault = "hash"
           THEN /\ disk' = d1
                /\ log' = [log EXCEPT ![wi + 1] = ev1]
                /\ InstallFail("hashing INSTALLER")
                /\ UNCHANGED <<wi, ei, records>>
           ELSE IF (fault = "scripts"
                       /\ Join(distInfoDir, <<"entry_points.txt">>) \in DOMAIN d1)
                   \/ \E k \in 1..Len(scripts) :
                          IsDir(d1, pyenv, Join(binDir, <<scripts[k].Name>>))
           THEN /\ disk' = d1
                /\ log' = [log EXCEPT ![wi + 1] = ev1]
                /\ InstallFail("installing console scripts")
                /\ UNCHANGED <<wi, ei, records>>
           ELSE IF fault = "scripts late"
           THEN /\ scripts # <<>>
                /\ disk' = d2
                /\ log' = [log EXCEPT ![wi + 1] = ev2]
                /\ InstallFail("installing console scripts")
                /\ UNCHANGED <<wi, ei, records>>
           ELSE IF fault = "record" \/ IsDir(d2, pyenv, Join(distInfoDir, <<"RECORD">>))
           THEN /\ disk' = d2
                /\ log' = [log EXCEPT ![wi + 1] = ev2]
                /\ InstallFail("writing RECORD")
                /\ UNCHANGED <<wi, ei, records>>
           ELSE /\ disk' = d3
                /\ log' = [log EXCEPT ![wi + 1] = ev3]
                /\ records' = recs2
                /\ wi' = wi + 1
                /\ ipc' = "loop"
                /\ UNCHANGED <<ei, ierr>>
    /\ UNCHANGED <<pyenv, downloads, ictx, distInfoDir>>

\* the loop of Install is over: Install returns nil
InstallReturn ==
    /\ ipc = "loop"
    /\ wi = Len(downloads)
    /\ ipc' = "returned"
    /\ UNCHANGED <<pyenv, downloads, ictx, disk, wi, ei, records, distInfoDir, ierr, log>>

InstallIdle ==
    /\ pyenv = VenvEnv
    /\ downloads = <<>>
    /\ ictx = FALSE
    /\ disk = EmptyMap
    /\ ipc = "idle"
    /\ wi = 0
    /\ ei = 0
    /\ records = <<>>
    /\ distInfoDir = EmptyString
    /\ ierr = NoInstallError
    /\ log = <<>>

(***************************************************************************)
(* NormalizeName and EvalMarker called on their own (requirement.go).      *)
(***************************************************************************)
NameChars == {"a", "B", "-", "_", "."}
NameInputs == SeqsUpTo(NameChars, MaxNameLen)

\* the terms the markers are built from: one true and two false in every
\* environment, one that depends on the Python version, one about extras
OnPosix == Term("os_name", "!=", "nt")
OnWin32 == Term("sys_platform", "==", "win32")
OnNt == Term("os_name", "==", "nt")
OldPython == Term("python_version", "<", "3.10")
ExtraDocs == Term("extra", "==", "docs")
Atoms == {OnPosix, OnWin32, OnNt, OldPython, ExtraDocs}
Connectives == {KwAnd, KwOr}

\* a op b op c, (a op b) op c and a op (b op c)
Flat(a, o1, b, o2, c) == <<a, o1, b, o2, c>>
GroupLeft(a, o1, b, o2, c) == <<ParenOpen, a, o1, b, ParenClose, o2, c>>
GroupRight(a, o1, b, o2, c) == <<a, o1, ParenOpen, b, o2, c, ParenClose>>

MarkerInputs ==
    {NoMarker}
    \cup {<<a>> : a \in Atoms}
    \cup {<<a, o, b>> : a \in Atoms, o \in Connectives, b \in Atoms}
    \cup UNION {{Flat(a, o1, b, o2, c), GroupLeft(a, o1, b, o2, c),
                 GroupRight(a, o1, b, o2, c)} :
                a \in Atoms, o1 \in Connectives, b \in Atoms,
                o2 \in Connectives, c \in Atoms}

RequirementInit ==
    /\ qop \in {"NormalizeName", "EvalMarker"}
    /\ IF qop = "NormalizeName"
       THEN /\ qname \in NameInputs
            /\ qmarker = NoMarker
            /\ qenv = CHOOSE e \in MarkerEnvs : e.PythonVersion = "3.12"
       ELSE /\ qname = EmptyString
            /\ qmarker \in MarkerInputs
            /\ qenv \in MarkerEnvs
    /\ qpc = "call"
    /\ nout = EmptyString
    /\ nout2 = EmptyString
    /\ mout = FALSE

\* NormalizeName(qname)
NormalizeCall ==
    /\ qop = "NormalizeName"
    /\ qpc = "call"
    /\ nout' = NormalizeName(qname)
    /\ qpc' = "once"
    /\ UNCHANGED <<qop, qname, qmarker, qenv, nout2, mout>>

\* NormalizeName on what NormalizeName returned
NormalizeAgain ==
    /\ qop = "NormalizeName"
    /\ qpc = "once"
    /\ nout2' = NormalizeName(nout)
    /\ qpc' = "returned"
    /\ UNCHANGED <<qop, qname, qmarker, qenv, nout, mout>>

\* EvalMarker(qmarker, qenv)
EvalCall ==
    /\ qop = "EvalMarker"
    /\ qpc = "call"
    /\ mout' = EvalMarker(qmarker, qenv)
    /\ qpc' = "returned"
    /\ UNCHANGED <<qop, qname, qmarker, qenv, nout, nout2>>

RequirementIdle ==
    /\ qop = "none"
    /\ qname = EmptyString
    /\ qmarker = NoMarker
    /\ qenv = [PythonVersion |-> "", SysPlatform |-> "", OsName |-> ""]
    /\ qpc = "idle"
    /\ nout = EmptyString
    /\ nout2 = EmptyString
    /\ mout = FALSE

(***************************************************************************)
(* pypi.Service: GetPackage, GetPackageVersion, fetch and doRequest        *)
(* (internal/pypi).                                                        *)
(***************************************************************************)
pypiMaxRetries == 3
StatusOK == 200
StatusNotFound == 404
StatusInternalServerError == 500

\* what one request can meet: httpClient.Do fails, or a response arrives
\* with a status and a body that reads whole and decodes ("json"), breaks
\* off while it is read ("truncated") or does not decode ("garbage")
NetworkFailure == [failed |-> TRUE, status |-> 0, body |-> "none"]
Response(status, body) == [failed |-> FALSE, status |-> status, body |-> body]
Answers ==
    {NetworkFailure}
    \cup {Response(s, "none") : s \in {400, 429, StatusNotFound,
                                       StatusInternalServerError, 503}}
    \cup {Response(StatusOK, b) : b \in {"json", "truncated", "garbage"}}

NoFetchError == [kind |-> "none", text |-> "", attempts |-> 0]
Retryable(text) == [kind |-> "retryable", text |-> text, attempts |-> 0]
Permanent(text) == [kind |-> "permanent", text |-> text, attempts |-> 0]

doRequestRetriesAll(answer) ==
    IF ~answer.failed /\ answer.status = StatusOK /\ answer.body = "json"
    THEN [info |-> TRUE, err |-> NoFetchError]
    ELSE [info |-> FALSE, err |-> Retryable("requesting")]

\* doRequest: the PackageInfo is decoded or an error is returned, a
\* retryableError for the transient failures
doRequest(answer) ==
    IF answer.failed
    THEN [info |-> FALSE, err |-> Retryable("requesting")]
    ELSE IF answer.status = StatusNotFound
    THEN [info |-> FALSE, err |-> Permanent("package not found")]
    ELSE IF answer.status >= StatusInternalServerError
    THEN [info |-> FALSE, err |-> Retryable("server error")]
    ELSE IF answer.status # StatusOK
    THEN [info |-> FALSE, err |-> Permanent("unexpected status")]
    ELSE IF answer.body = "truncated"
    THEN [info |-> FALSE, err |-> Retryable("reading response")]
    ELSE IF answer.body = "garbage"
    THEN [info |-> FALSE, err |-> Permanent("decoding response")]
    ELSE [info |-> TRUE, err |-> NoFetchError]

NoCall == [method |-> "none", name |-> EmptyString, version |-> ""]
NoReturn == [info |-> FALSE, err |-> NoFetchError]

\* GetPackage(ctx, name) or GetPackageVersion(ctx, name, version) has
\* called fetch
FetchInit ==
    /\ fcall \in {[method |-> "GetPackage", name |-> <<"a">>, version |-> ""],
                  [method |-> "GetPackageVersion", name |-> <<"a">>, version |-> "1.0"]}
    /\ fctx = FALSE
    /\ fpc = "request"
    /\ fattempt = 0
    /\ fsent = <<>>
    /\ fwaited = <<>>
    /\ fret = NoReturn

\* the caller cancels ctx
FetchCancel ==
    /\ fpc \in {"request", "backoff"}
    /\ ~fctx
    /\ fctx' = TRUE
    /\ UNCHANGED <<fcall, fpc, fattempt, fsent, fwaited, fret>>

\* fetch: doRequest and the rest of the loop body; a request under a done
\* context fails in httpClient.Do
FetchRequest ==
    /\ fpc = "request"
    /\ \E answer \in Answers :
        /\ fctx => answer = NetworkFailure
        /\ fsent' = Append(fsent, answer)
        /\ LET r == doRequest(answer)
           IN IF r.err.kind = "none"
              THEN /\ fret' = r
                   /\ fpc' = "returned"
                   /\ UNCHANGED fattempt
              ELSE IF r.err.kind # "retryable"
              THEN /\ fret' = [info |-> FALSE, err |-> r.err]
                   /\ fpc' = "returned"
                   /\ UNCHANGED fattempt
              ELSE IF fattempt + 1 < pypiMaxRetries
              THEN /\ fattempt' = fattempt + 1
                   /\ fpc' = "backoff"
                   /\ UNCHANGED fret
              ELSE /\ fret' = [info |-> FALSE,
                               err |-> [r.err EXCEPT !.attempts = pypiMaxRetries]]
                   /\ fpc' = "returned"
                   /\ UNCHANGED fattempt
    /\ UNCHANGED <<fcall, fctx, fwaited>>

\* fetch: time.After(backoff) fires first
FetchBackoffOver ==
    /\ fpc = "backoff"
    /\ fwaited' = Append(fwaited, fetchBackoff(fattempt))
    /\ fpc' = "request"
    /\ UNCHANGED <<fcall, fctx, fattempt, fsent, fret>>

\* fetch: ctx.Done() is taken during the backoff
FetchBackoffCanceled ==
    /\ fpc = "backoff"
    /\ fctx
    /\ fret' = [info |-> FALSE, err |-> Permanent("context canceled")]
    /\ fpc' = "returned"
    /\ UNCHANGED <<fcall, fctx, fattempt, fsent, fwaited>>

FetchIdle ==
    /\ fcall = NoCall
    /\ fctx = FALSE
    /\ fpc = "idle"
    /\ fattempt = 0
    /\ fsent = <<>>
    /\ fwaited = <<>>
    /\ fret = NoReturn

(***************************************************************************)
(* One run of "pipg install": main, runInstall and downloadPackages        *)
(* (cmd/pipg).                                                             *)
(***************************************************************************)
\* a line of a requirements file: the requirement left after the inline
\* comment and the spaces are cut off, and whether it starts with "-"
FileLine(req, option) == [req |-> req, option |-> option]
RequirementsFiles ==
    [none |-> <<>>,
     missing |-> <<>>,
     comments |-> <<FileLine("", FALSE), FileLine("-index-url", TRUE)>>,
     one |-> <<FileLine("", FALSE), FileLine("b", FALSE)>>]

\* parseRequirementsFile: the lines that are neither empty nor options
parseRequirementsFile(path) ==
    LET kept == SelectSeq(RequirementsFiles[path],
                          LAMBDA l : l.req # "" /\ ~l.option)
    IN [i \in 1..Len(kept) |-> kept[i].req]

\* collectRequirements: the arguments, then the lines of the file
collectRequirements(args, reqFile) ==
    IF reqFile # "none" THEN args \o parseRequirementsFile(reqFile) ELSE args

NoPackagesNever(reqs) == FALSE

\* runInstall: len(requirements) == 0
NoPackages(reqs) == Len(reqs) = 0

RemoveAllKeeps(tmp) == tmp

\* os.RemoveAll(tmpDir)
RemoveAll(tmp) == IF tmp = "present" THEN "removed" ELSE tmp

CommandLines ==
    [packages : SeqsUpTo({"a"}, MaxArgs),
     reqFile : DOMAIN RequirementsFiles,
     dryRun : BOOLEAN]

RunInit ==
    /\ margs \in CommandLines
    /\ mpc = "collect"
    /\ mreqs = <<>>
    /\ mctx = FALSE
    /\ mplans = 0
    /\ mresults = 0
    /\ mtmp = "none"
    /\ mdefers = <<>>
    /\ merr = ""
    /\ mexit = -1
    /\ mcalls = <<>>

\* runInstall returns err: the deferred calls run, last first, and main exits
ReturnFrom(err, defers, tmp) ==
    /\ mpc' = "exited"
    /\ merr' = err
    /\ mexit' = IF err = "" THEN 0 ELSE 1
    /\ mtmp' = IF \E i \in 1..Len(defers) : defers[i] = "RemoveAll"
               THEN RemoveAll(tmp) ELSE tmp
    /\ mdefers' = <<>>

\* os.Interrupt arrives while signal.NotifyContext is in force
RunInterrupt ==
    /\ mpc \in {"detect", "resolve", "select", "mkdir", "download", "install"}
    /\ ~mctx
    /\ mctx' = TRUE
    /\ UNCHANGED <<margs, mpc, mreqs, mplans, mresults, mtmp, mdefers, merr, mexit,
                   mcalls>>

\* runInstall up to signal.NotifyContext
RunCollect ==
    /\ mpc = "collect"
    /\ IF margs.reqFile = "missing"
       THEN /\ ReturnFrom("opening requirements file", mdefers, mtmp)
            /\ UNCHANGED mreqs
       ELSE /\ mreqs' = collectRequirements(margs.packages, margs.reqFile)
            /\ IF NoPackages(mreqs')
               THEN ReturnFrom("no packages specified", mdefers, mtmp)
               ELSE /\ mpc' = "detect"
                    /\ mdefers' = <<"stop">>
                    /\ UNCHANGED <<merr, mexit, mtmp>>
    /\ UNCHANGED <<margs, mctx, mplans, mresults, mcalls>>

\* runInstall: detectEnv
RunDetectEnv ==
    /\ mpc = "detect"
    /\ mcalls' = Append(mcalls, "Detect")
    /\ \/ /\ mpc' = "resolve"
          /\ UNCHANGED <<mtmp, mdefers, merr, mexit>>
       \/ ReturnFrom("detecting Python environment", mdefers, mtmp)
    /\ UNCHANGED <<margs, mreqs, mctx, mplans, mresults>>

\* runInstall: resolveDeps; Resolve of no requirement returns no package
\* and asks the index nothing
RunResolve ==
    /\ mpc = "resolve"
    /\ \/ /\ mreqs = <<>>
          /\ mcalls' = Append(mcalls, "Resolve")
          /\ mplans' = 0
          /\ mpc' = "select"
          /\ UNCHANGED <<mtmp, mdefers, merr, mexit>>
       \/ /\ mreqs # <<>>
          /\ mcalls' = mcalls \o <<"Resolve", "GetPackage">>
          /\ \/ \E n \in 1..MaxPlans :
                  /\ mplans' = n
                  /\ mpc' = "select"
                  /\ UNCHANGED <<mtmp, mdefers, merr, mexit>>
             \/ /\ ReturnFrom("resolving dependencies", mdefers, mtmp)
                /\ UNCHANGED mplans
    /\ UNCHANGED <<margs, mreqs, mctx, mresults>>

\* runInstall: selectWheels, then the return of a dry run
RunSelectWheels ==
    /\ mpc = "select"
    /\ mcalls' = IF mplans > 0 THEN Append(mcalls, "GetPackageVersion") ELSE mcalls
    /\ \/ /\ mplans > 0
          /\ ReturnFrom("no compatible wheel", mdefers, mtmp)
       \/ IF margs.dryRun
          THEN ReturnFrom("", mdefers, mtmp)
          ELSE /\ mpc' = "mkdir"
               /\ UNCHANGED <<mtmp, mdefers, merr, mexit>>
    /\ UNCHANGED <<margs, mreqs, mctx, mplans, mresults>>

\* downloadPackages: os.MkdirTemp
RunMkdirTemp ==
    /\ mpc = "mkdir"
    /\ mcalls' = Append(mcalls, "MkdirTemp")
    /\ \/ /\ mtmp' = "present"
          /\ mpc' = "download"
          /\ UNCHANGED <<mdefers, merr, mexit>>
       \/ ReturnFrom("creating temp directory", mdefers, mtmp)
    /\ UNCHANGED <<margs, mreqs, mctx, mplans, mresults>>

\* downloadPackages from Download on, and the defer of runInstall; Download
\* of no request returns no result and no error
RunDownload ==
    /\ mpc = "download"
    /\ mcalls' = Append(mcalls, "Download")
    /\ \/ /\ mplans > 0
          /\ ReturnFrom("downloading packages", mdefers, RemoveAll(mtmp))
          /\ UNCHANGED mresults
       \/ /\ mresults' = mplans
          /\ mdefers' = Append(mdefers, "RemoveAll")
          /\ mpc' = "install"
          /\ UNCHANGED <<mtmp, merr, mexit>>
    /\ UNCHANGED <<margs, mreqs, mctx, mplans>>

\* runInstall: Install and the return; Install of no result returns nil, a
\* done context stops it at the next wheel
RunInstall ==
    /\ mpc = "install"
    /\ mcalls' = Append(mcalls, "Install")
    /\ \/ /\ mresults > 0
          /\ \/ /\ ReturnFrom("installation canceled", mdefers, mtmp)
                /\ mctx' = TRUE
             \/ /\ ~mctx
                /\ ReturnFrom("installing packages", mdefers, mtmp)
                /\ UNCHANGED mctx
       \/ /\ mresults > 0 => ~mctx
          /\ ReturnFrom("", mdefers, mtmp)
          /\ UNCHANGED mctx
    /\ UNCHANGED <<margs, mreqs, mplans, mresults>>

RunIdle ==
    /\ margs = [packages |-> <<>>, reqFile |-> "none", dryRun |-> FALSE]
    /\ mpc = "idle"
    /\ mreqs = <<>>
    /\ mctx = FALSE
    /\ mplans = 0
    /\ mresults = 0
    /\ mtmp = "none"
    /\ mdefers = <<>>
    /\ merr = ""
    /\ mexit = -1
    /\ mcalls = <<>>

RestIdle == RequirementIdle /\ FetchIdle /\ RunIdle

ResolveIdle ==
    /\ requirements = <<>>
    /\ noDeps = FALSE
    /\ markerEnv = [PythonVersion |-> "", SysPlatform |-> "", OsName |-> ""]
    /\ queue = <<>>
    /\ resolved = EmptyMap
    /\ constraints = EmptyMap
    /\ processing = {}
    /\ rpc = "idle"
    /\ cur = NoCur
    /\ result = NoResult
    /\ rerr = NoError
    /\ reached = <<>>
    /\ fetches = [n \in Names |-> 0]
    /\ served = EmptyMap

DownloadIdle ==
    /\ requests = <<>>
    /\ maxWorkers = 0
    /\ cacheOn = FALSE
    /\ targetDir = EmptyDir
    /\ started = 0
    /\ task = <<>>
    /\ attempt = <<>>
    /\ xfer = <<>>
    /\ resp = <<>>
    /\ waited = <<>>
    /\ terr = <<>>
    /\ results = <<>>
    /\ canceled = FALSE
    /\ gerr = NoError
    /\ dpc = "idle"
    /\ dout = NoResult
    /\ putCalls = <<>>

DownloadNext ==
    \/ Cancel /\ UNCHANGED <<resolverVars, puts, wheelVars, installVars, restVars>>
    \/ Go /\ UNCHANGED <<resolverVars, puts, wheelVars, installVars, restVars>>
    \/ \E i \in 1..Len(requests) : Lookup(i) /\ UNCHANGED <<resolverVars, puts, wheelVars, installVars, restVars>>
    \/ \E i \in 1..Len(requests) : Attempt(i) /\ UNCHANGED <<resolverVars, puts, wheelVars, installVars, restVars>>
    \/ \E i \in 1..Len(requests) : Copy(i) /\ UNCHANGED <<resolverVars, puts, wheelVars, installVars, restVars>>
    \/ \E i \in 1..Len(requests) : Finish(i) /\ UNCHANGED <<resolverVars, puts, wheelVars, installVars, restVars>>
    \/ \E i \in 1..Len(requests) : BackoffOver(i) /\ UNCHANGED <<resolverVars, puts, wheelVars, installVars, restVars>>
    \/ \E i \in 1..Len(requests) : BackoffCanceled(i) /\ UNCHANGED <<resolverVars, puts, wheelVars, installVars, restVars>>
    \/ Wait /\ UNCHANGED <<resolverVars, puts, wheelVars, installVars, restVars>>

DownloadStart ==
    DownloadInit /\ ResolveIdle /\ puts = <<>> /\ WheelIdle /\ InstallIdle /\ RestIdle

\* one Download call, for every request list, every worker limit, every
\* cache and every interleaving of the goroutines
DownloadSpec == DownloadStart /\ [][DownloadNext]_vars

CacheNext ==
    \/ \E w \in 1..Len(puts) : PutCreate(w) /\ UNCHANGED <<resolverVars, downloadVars, wheelVars, installVars, restVars>>
    \/ \E w \in 1..Len(puts) : PutCopy(w) /\ UNCHANGED <<resolverVars, downloadVars, wheelVars, installVars, restVars>>
    \/ \E w \in 1..Len(puts) : PutRename(w) /\ UNCHANGED <<resolverVars, downloadVars, wheelVars, installVars, restVars>>

CacheStart ==
    CacheInit /\ ResolveIdle /\ DownloadIdle /\ WheelIdle /\ InstallIdle /\ RestIdle

\* concurrent Put calls on one cache directory, in every interleaving
CacheSpec == CacheStart /\ [][CacheNext]_vars

ResolveNext ==
    \/ Dequeue /\ UNCHANGED <<downloadVars, cacheVars, wheelVars, installVars, restVars>>
    \/ GetPackage /\ UNCHANGED <<downloadVars, cacheVars, wheelVars, installVars, restVars>>
    \/ FetchDeps /\ UNCHANGED <<downloadVars, cacheVars, wheelVars, installVars, restVars>>
    \/ Return /\ UNCHANGED <<downloadVars, cacheVars, wheelVars, installVars, restVars>>

ResolveStart ==
    /\ ResolveInit /\ DownloadIdle /\ cacheDir = EmptyDir /\ puts = <<>>
    /\ WheelIdle /\ InstallIdle /\ RestIdle

\* one Resolve call, for every input and every index
ResolveSpec == ResolveStart /\ [][ResolveNext]_vars

\* the same, with the scheduling the runtime gives: a call that can take a
\* step takes it
ResolveFairSpec == ResolveSpec /\ WF_vars(ResolveNext)

WheelNext ==
    \/ ParseCall /\ UNCHANGED <<resolverVars, downloadVars, cacheVars, installVars, restVars>>
    \/ Scan /\ UNCHANGED <<resolverVars, downloadVars, cacheVars, installVars, restVars>>
    \/ SelectReturn /\ UNCHANGED <<resolverVars, downloadVars, cacheVars, installVars, restVars>>

WheelStart ==
    /\ WheelInit /\ ResolveIdle /\ DownloadIdle /\ cacheDir = EmptyDir /\ puts = <<>>
    /\ InstallIdle /\ RestIdle

\* one call of ParseWheelFilename or of SelectWheel, for every argument
WheelSpec == WheelStart /\ [][WheelNext]_vars

InstallNext ==
    \/ InstallCancel /\ UNCHANGED <<resolverVars, downloadVars, cacheVars, wheelVars, restVars>>
    \/ BeginWheel /\ UNCHANGED <<resolverVars, downloadVars, cacheVars, wheelVars, restVars>>
    \/ ExtractEntry /\ UNCHANGED <<resolverVars, downloadVars, cacheVars, wheelVars, restVars>>
    \/ FinishWheel /\ UNCHANGED <<resolverVars, downloadVars, cacheVars, wheelVars, restVars>>
    \/ InstallReturn /\ UNCHANGED <<resolverVars, downloadVars, cacheVars, wheelVars, restVars>>

InstallStart ==
    /\ InstallInit /\ ResolveIdle /\ DownloadIdle /\ cacheDir = EmptyDir /\ puts = <<>>
    /\ WheelIdle /\ RestIdle

\* one Install call, for every environment, every list of wheels, every
\* failure of the file system and every moment the caller cancels
InstallSpec == InstallStart /\ [][InstallNext]_vars

OthersIdle ==
    /\ ResolveIdle /\ DownloadIdle /\ cacheDir = EmptyDir /\ puts = <<>>
    /\ WheelIdle /\ InstallIdle
othersVars == <<resolverVars, downloadVars, cacheVars, wheelVars, installVars>>

RequirementNext ==
    \/ NormalizeCall /\ UNCHANGED <<othersVars, fetchVars, runVars>>
    \/ NormalizeAgain /\ UNCHANGED <<othersVars, fetchVars, runVars>>
    \/ EvalCall /\ UNCHANGED <<othersVars, fetchVars, runVars>>

RequirementStart == RequirementInit /\ OthersIdle /\ FetchIdle /\ RunIdle

\* one call of NormalizeName, repeated on its result, or one call of
\* EvalMarker, for every argument
RequirementSpec == RequirementStart /\ [][RequirementNext]_vars

FetchNext ==
    \/ FetchCancel /\ UNCHANGED <<othersVars, requirementVars, runVars>>
    \/ FetchRequest /\ UNCHANGED <<othersVars, requirementVars, runVars>>
    \/ FetchBackoffOver /\ UNCHANGED <<othersVars, requirementVars, runVars>>
    \/ FetchBackoffCanceled /\ UNCHANGED <<othersVars, requirementVars, runVars>>

FetchStart == FetchInit /\ OthersIdle /\ RequirementIdle /\ RunIdle

\* one GetPackage or GetPackageVersion call, for every answer of the index
\* and every moment the caller cancels
FetchSpec == FetchStart /\ [][FetchNext]_vars

RunNext ==
    \/ RunInterrupt /\ UNCHANGED <<othersVars, requirementVars, fetchVars>>
    \/ RunCollect /\ UNCHANGED <<othersVars, requirementVars, fetchVars>>
    \/ RunDetectEnv /\ UNCHANGED <<othersVars, requirementVars, fetchVars>>
    \/ RunResolve /\ UNCHANGED <<othersVars, requirementVars, fetchVars>>
    \/ RunSelectWheels /\ UNCHANGED <<othersVars, requirementVars, fetchVars>>
    \/ RunMkdirTemp /\ UNCHANGED <<othersVars, requirementVars, fetchVars>>
    \/ RunDownload /\ UNCHANGED <<othersVars, requirementVars, fetchVars>>
    \/ RunInstall /\ UNCHANGED <<othersVars, requirementVars, fetchVars>>

RunStart == RunInit /\ OthersIdle /\ RequirementIdle /\ FetchIdle

\* one run of the install command, for every command line, every outcome
\* of its steps and every moment of an interrupt
RunSpec == RunStart /\ [][RunNext]_vars

(***************************************************************************)
(* Properties of Resolve.                                                  *)
(***************************************************************************)
RECURSIVE SpecifiersOf(_, _)
\* the non-empty specifiers of the requirements of reqs that name n, in order
SpecifiersOf(reqs, n) ==
    IF reqs = <<>> THEN <<>>
    ELSE (IF Head(reqs).Name = n /\ Head(reqs).Specifier # EmptyString
          THEN <<Head(reqs).Specifier>> ELSE <<>>) \o SpecifiersOf(Tail(reqs), n)

ResultNames == {result[i].Name : i \in 1..Len(result)}
ReachedNames == {reached[i].Name : i \in 1..Len(reached)}
RootNames == {NormalizeName(requirements[i].name) : i \in 1..Len(requirements)}
TimesReached(n) == Cardinality({i \in 1..Len(reached) : reached[i].Name = n})

\* the requires_dist string d carries the marker python_version < "3.10" and
\* the environment's Python is 3.12
FalseMarked(d) == d.marker = PyLt310 /\ markerEnv.PythonVersion = "3.12"

RECURSIVE Unmarked(_)
\* the strings of a requires_dist list that are not FalseMarked
Unmarked(deps) ==
    IF deps = <<>> THEN <<>>
    ELSE (IF FalseMarked(Head(deps)) THEN <<>> ELSE <<Head(deps)>>) \o Unmarked(Tail(deps))

UnmarkedNames(deps) ==
    [i \in 1..Len(Unmarked(deps)) |-> NormalizeName(Unmarked(deps)[i].name)]

RECURSIVE SumOver(_, _)
SumOver(S, f) ==
    IF S = {} THEN 0
    ELSE LET x == CHOOSE y \in S : TRUE IN f[x] + SumOver(S \ {x}, f)

\* C1: when Resolve returns a list, the version of every package in it
\* satisfies every specifier accumulated in constraints for its name, and
\* these are the specifiers of all the requirements dequeued for that name,
\* the root requirements among them.
C1_ChosenSatisfiesAccumulated ==
    rpc = "done" =>
        /\ \A i \in 1..Len(requirements) :
               \E j \in 1..Len(reached) : reached[j] = ParseRequirement(requirements[i])
        /\ \A i \in 1..Len(result) :
               LET acc == MapGet(constraints, result[i].Name, <<>>)
               IN /\ acc = SpecifiersOf(reached, result[i].Name)
                  /\ \A j \in 1..Len(acc) : Check(result[i].Version, acc[j])

C1_Witness ==
    /\ rpc = "done"
    /\ \E i \in 1..Len(result) :
           Len(MapGet(constraints, result[i].Name, <<>>)) >= 2

\* C2: a chosen version never changes; dequeuing a requirement for a
\* resolved name whose version fails the accumulated specifiers ends the run
\* with a version-conflict error that carries the name, the version and the
\* whole constraint list; a failed run returns no list and takes no further
\* step.
C2_ConflictIsFatal ==
    [][ /\ \A n \in DOMAIN resolved :
               n \in DOMAIN resolved' /\ resolved'[n].Version = resolved[n].Version
        /\ (/\ rpc = "loop"
            /\ queue # <<>>
            /\ Head(queue).Name \in DOMAIN resolved
            /\ \E j \in 1..Len(SpecifiersOf(reached', Head(queue).Name)) :
                   ~Check(resolved[Head(queue).Name].Version,
                          SpecifiersOf(reached', Head(queue).Name)[j]))
           => /\ rpc' = "failed"
              /\ rerr' = [kind |-> "conflict", name |-> Head(queue).Name,
                          version |-> resolved[Head(queue).Name].Version,
                          specs |-> SpecifiersOf(reached', Head(queue).Name)]
        /\ rpc' = "failed" => result' = NoResult
        /\ rpc # "failed"
      ]_vars

C2_Witness ==
    /\ rpc = "failed"
    /\ rerr.kind = "conflict"
    /\ Len(rerr.specs) >= 2

\* C3: the returned list holds exactly one package for each distinct
\* normalized name that was dequeued, and no name twice.
C3_OnePackagePerName ==
    rpc = "done" =>
        /\ ResultNames = ReachedNames
        /\ Len(result) = Cardinality(ReachedNames)
        /\ \A i, j \in 1..Len(result) : result[i].Name = result[j].Name => i = j

C3_Witness ==
    /\ rpc = "done"
    /\ Len(result) = 2
    /\ \E n \in ReachedNames : TimesReached(n) >= 2

\* C4: every run of Resolve ends, with a list or with an error, also when
\* the packages depend on each other in a cycle.
C4_Terminates == <>(rpc \in {"done", "failed"})

C4_Witness ==
    /\ rpc = "done"
    /\ {<<"a">>, <<"b">>} \subseteq DOMAIN resolved
    /\ \E i \in 1..Len(resolved[<<"a">>].Dependencies) :
           resolved[<<"a">>].Dependencies[i] = <<"b">>
    /\ \E i \in 1..Len(resolved[<<"b">>].Dependencies) :
           resolved[<<"b">>].Dependencies[i] = <<"a">>
    /\ TimesReached(<<"a">>) >= 2

\* C5: GetPackage is called at most once for a name in one run; dequeuing a
\* name that was fetched before only rechecks the constraints: nothing is
\* fetched, nothing is enqueued and no package is recorded.
C5_FetchedOnce ==
    /\ [](\A n \in Names : fetches[n] <= 1)
    /\ [][ (rpc = "loop" /\ queue # <<>> /\ fetches[Head(queue).Name] >= 1)
           => /\ rpc' \in {"loop", "failed"}
              /\ queue' = Tail(queue)
              /\ fetches' = fetches
              /\ resolved' = resolved ]_vars

C5_Witness ==
    \E n \in Names : fetches[n] = 1 /\ TimesReached(n) >= 2

\* a candidate that is no pre-release and satisfies every specifier
\* accumulated for the name being resolved
Acceptable(v) ==
    /\ ~v.pre
    /\ \A j \in 1..Len(MapGet(constraints, cur.name, <<>>)) :
           Check(v, MapGet(constraints, cur.name, <<>>)[j])

\* C6: the version chosen for a name is the highest of the candidates that
\* are no pre-release and satisfy every specifier accumulated so far; when
\* there is none, FindBestVersion returns "" and Resolve fails with the
\* no-compatible-version error.
C6_HighestCompatible ==
    /\ rpc = "fetchDeps" =>
           /\ cur.best \in cur.versions
           /\ Acceptable(cur.best)
           /\ \A w \in cur.versions : Acceptable(w) => Compare(cur.best, w) >= 0
    /\ (rpc = "failed" /\ rerr.kind = "no compatible version") =>
           /\ cur.best = EmptyString
           /\ \A w \in cur.versions : ~Acceptable(w)
           /\ rerr.name = cur.name

C6_Witness ==
    /\ rpc = "fetchDeps"
    /\ MapGet(constraints, cur.name, <<>>) # <<>>
    /\ \E w \in cur.versions : ~w.pre /\ Compare(w, cur.best) > 0

\* a pre-release candidate that satisfies every accumulated specifier
PreAcceptable(v) ==
    /\ v.pre
    /\ \A j \in 1..Len(MapGet(constraints, cur.name, <<>>)) :
           Check(v, MapGet(constraints, cur.name, <<>>)[j])

\* C7: when no candidate that is not a pre-release satisfies the specifiers
\* and some pre-release does, the highest such pre-release is chosen and the
\* run does not fail.
C7_PreReleaseFallback ==
    (/\ rpc = "fetchDeps" \/ (rpc = "failed" /\ rerr.kind = "no compatible version")
     /\ \A w \in cur.versions : ~Acceptable(w)
     /\ \E w \in cur.versions : PreAcceptable(w))
    => /\ rpc = "fetchDeps"
       /\ PreAcceptable(cur.best)
       /\ \A w \in cur.versions : PreAcceptable(w) => Compare(cur.best, w) >= 0

\* C8: a dependency whose marker is false in the environment is not listed
\* in its parent's Dependencies and is not enqueued: everything ever enqueued
\* is a root requirement or a dependency whose marker holds, so such a name
\* is in the returned list only when one of those names it.
C8_FalseMarkerSkipped ==
    /\ \A n \in DOMAIN resolved : resolved[n].Dependencies = UnmarkedNames(served[n])
    /\ ~noDeps =>
           /\ Len(reached) + Len(queue)
                = Len(requirements)
                  + SumOver(DOMAIN resolved,
                            [n \in DOMAIN resolved |-> Len(Unmarked(served[n]))])
           /\ \A r \in Range(reached) \cup Range(queue) :
                  \/ \E i \in 1..Len(requirements) : r = ParseRequirement(requirements[i])
                  \/ \E n \in DOMAIN resolved : \E i \in 1..Len(Unmarked(served[n])) :
                         r = ParseRequirement(Unmarked(served[n])[i])
    /\ rpc = "done" =>
           ResultNames \subseteq
               RootNames \cup UNION {Range(UnmarkedNames(served[n])) : n \in DOMAIN resolved}

C8_Witness ==
    /\ rpc = "done"
    /\ ~noDeps
    /\ \E n \in DOMAIN resolved : \E i \in 1..Len(served[n]) :
           /\ FalseMarked(served[n][i])
           /\ NormalizeName(served[n][i].name) \notin ResultNames

\* C9: with no_deps nothing but the root requirements is ever enqueued, the
\* returned list holds exactly the root names, and Dependencies still lists
\* the names of the dependencies each package declares (those whose marker
\* holds, as for C8).
C9_NoDepsRootsOnly ==
    noDeps =>
        /\ reached \o queue = [i \in 1..Len(requirements) |-> ParseRequirement(requirements[i])]
        /\ rpc = "done" =>
               /\ ResultNames = RootNames
               /\ \A i \in 1..Len(result) :
                      result[i].Dependencies = UnmarkedNames(served[result[i].Name])

C9_Witness ==
    /\ noDeps
    /\ rpc = "done"
    /\ \E i \in 1..Len(result) : Len(result[i].Dependencies) >= 1

(***************************************************************************)
(* Properties of Download.                                                 *)
(***************************************************************************)
\* C10: when Download returns without error, it returns one result per
\* request, and the result at each index carries the name and the version
\* of the request at that index, whatever the order the goroutines ended in.
C10_ResultsInRequestOrder ==
    (dpc = "returned" /\ dout.err = NoError) =>
        /\ Len(dout.results) = Len(requests)
        /\ \A i \in 1..Len(requests) :
               /\ dout.results[i].Name = requests[i].Name
               /\ dout.results[i].Version = requests[i].Version

C10_Witness ==
    /\ dpc = "returned"
    /\ dout.err = NoError
    /\ Len(requests) = MaxRequests
    /\ \E i, j \in 1..Len(requests) : requests[i].Name # requests[j].Name
    /\ maxWorkers >= 2

\* C11: at no moment of a Download call do more goroutines hold a slot of the
\* errgroup than maxWorkers: the tasks running concurrently are at most
\* maxWorkers.
C11_AtMostMaxWorkers == Cardinality(Active) <= maxWorkers

\* the limit is reached while a request still waits for its goroutine
C11_Witness ==
    /\ Cardinality(Active) = maxWorkers
    /\ started < Len(requests)
    /\ \E i \in Active : task[i] = "copying"

\* C12: when a task of the batch fails, Download returns the first error a
\* task returned and no results; from the first failure on the context is
\* canceled, and under a canceled context no task that has not got its
\* response yet starts a transfer.
C12_FirstErrorCancelsBatch ==
    /\ [](/\ \A i \in 1..Len(task) : task[i] = "failed" => canceled /\ gerr # NoError
          /\ (dpc = "returned" /\ \E i \in 1..Len(task) : task[i] = "failed") =>
                 dout.err = gerr /\ dout.results = <<>>)
    /\ [][/\ gerr # NoError => gerr' = gerr
          /\ \A i \in 1..Len(task) :
                /\ (gerr = NoError /\ task[i] # "failed" /\ task'[i] = "failed") =>
                       gerr' = terr'[i] /\ terr'[i] # NoError
                /\ (canceled /\ task[i] \in {"idle", "lookup", "running", "backoff"}) =>
                       task'[i] # "copying"]_vars

\* both tasks failed, the second request first; its error is the one
\* returned
C12_Witness ==
    /\ dpc = "returned"
    /\ Len(requests) = 2
    /\ terr[1] # NoError
    /\ terr[2] # NoError
    /\ terr[1] # terr[2]
    /\ dout.err = terr[2]
    /\ terr[2].kind = "unexpected status"

\* the responses before the last one of a history
Earlier(h) == {h[k] : k \in 1..(Len(h) - 1)}

\* C13: a task makes at most 3 HTTP requests, and each request but the last
\* got a network error or a 5xx; a 4xx ends the task with an error, after
\* exactly one request when it answers the first; after two 5xx and a 200
\* no further request is made and the task fails only if the file cannot be
\* written or verified.
C13_RetryOnlyTransient ==
    \A i \in 1..Len(resp) :
        /\ Len(resp[i]) <= 3
        /\ Earlier(resp[i]) \subseteq {"network error", "5xx"}
        /\ (resp[i] # <<>> /\ resp[i][Len(resp[i])] = "4xx") =>
               /\ task[i] = "failed"
               /\ terr[i].kind = "unexpected status"
               /\ resp[i][1] = "4xx" => Len(resp[i]) = 1
        /\ resp[i] = <<"5xx", "5xx", "200">> =>
               /\ task[i] \in {"copying", "done", "failed"}
               /\ task[i] = "failed" =>
                      terr[i].kind \in {"creating temp file", "writing",
                                        "sha256 mismatch", "renaming"}
               /\ task[i] = "done" => results[i].Name = requests[i].Name

\* one task got two 5xx and then a 200 and succeeded, another got a 4xx
C13_Witness ==
    /\ Len(requests) = 2
    /\ resp[1] = <<"5xx", "5xx", "200">>
    /\ task[1] = "done"
    /\ resp[2] = <<"4xx">>
    /\ task[2] = "failed"

\* C14: the backoff before a retry is 500 ms * 2^(k-1) after the k-th failed
\* attempt, 500 ms after the first and 1000 ms after the second, in the
\* downloader and in the index client alike.
C14_BackoffFromHalfSecond ==
    \A i \in 1..Len(waited) : \A k \in 1..Len(waited[i]) :
        /\ waited[i][k] = 500 * Pow2(k - 1)
        /\ fetchBackoff(k) = 500 * Pow2(k - 1)

\* goroutine i has copied a body whose digest is not the non-empty expected
\* one
Mismatching(i) ==
    /\ task[i] = "copying"
    /\ xfer[i].off = Len(xfer[i].body)
    /\ requests[i].SHA256 # EmptyString
    /\ Sha256Hex(xfer[i].body) # requests[i].SHA256

C16_CanceledInBackoff ==
    [][\A i \in 1..Len(task) :
        (canceled /\ attempt[i] > 0 /\ task[i] \in {"backoff", "running"}) =>
            /\ resp'[i] = resp[i]
            /\ task'[i] \in {"backoff", "running", "failed"}
            /\ task'[i] = "failed" => terr'[i].canceled]_vars

\* a task was canceled in its first backoff while the caller had not
\* canceled anything: a peer's failure did
C16_Witness ==
    \E i \in 1..Len(terr) :
        /\ terr[i].kind = "download canceled"
        /\ Len(resp[i]) = 1
        /\ waited[i] = <<>>
        /\ gerr # terr[i]

\* the filenames of the batch
BatchFilenames == {requests[i].Filename : i \in 1..Len(requests)}

\* C17: for every batch, filenames distinct or not, and every interleaving,
\* a file at a target path is at every moment the complete body that passed
\* the verification of a task of that filename, and once every task has
\* ended no .tmp file is left.
C17_NoPartialFileVisible ==
    /\ \A f \in BatchFilenames :
           IsFile(targetDir, Path(f)) =>
               /\ Content(targetDir, Path(f)) \in Bodies
               /\ \E i \in 1..Len(requests) :
                      /\ requests[i].Filename = f
                      /\ Verify(requests[i], Content(targetDir, Path(f)))
    /\ (\A i \in 1..Len(task) : task[i] \in {"done", "failed"}) =>
           \A f \in BatchFilenames : ~IsFile(targetDir, TmpPath(f))

\* C18: under every interleaving of Put calls whose sources hold the same
\* bytes, the file at a cache key is at every moment the previous entry or
\* the complete bytes, never a truncated or partly written file, and once
\* every writer of a key has returned, none of them for an I/O error, the
\* entry holds the complete bytes.
C18_EntryCompleteOrAbsent ==
    \A f \in {puts[w].file : w \in 1..Len(puts)} :
        LET writers == {w \in 1..Len(puts) : puts[w].file = f}
        IN /\ IsFile(cacheDir, Path(f)) => Content(cacheDir, Path(f)) \in {Good, Bad}
           /\ (\A w \in writers : /\ puts[w].pc \in {"done", "failed"}
                                  /\ puts[w].err \in {"", "renaming cache file"}) =>
                  /\ IsFile(cacheDir, Path(f))
                  /\ Content(cacheDir, Path(f)) = Good

\* C19: the cache lookup of a task is a hit iff a regular file is at the
\* cache path of exactly its filename and, when the expected digest is not
\* empty, the file's digest equals it; on a mismatch the entry is deleted
\* and the task goes on to the network; a lookup with an empty digest, and
\* a lookup that finds no file, delete nothing.
C19_HitIffPresentAndVerified ==
    [][\A i \in 1..Len(task) :
        (task[i] = "lookup" /\ task'[i] # "lookup") =>
            LET path == Path(requests[i].Filename)
                sha == requests[i].SHA256
                file == IsFile(cacheDir, path)
                match == sha = EmptyString \/ Sha256Hex(Content(cacheDir, path)) = sha
                hit == task'[i] = "done" /\ results'[i].Cached
            IN /\ hit <=> (file /\ match)
               /\ ~hit => task'[i] = "running" /\ results'[i] = ZeroResult
               /\ (file /\ ~match) => ~Exists(cacheDir', path)
               /\ (sha = EmptyString \/ ~file) => cacheDir' = cacheDir]_vars

\* a stale entry was deleted by the lookup of a task that then went to the
\* network, while the entry of the task without a digest, with the same
\* bytes, was a hit
C19_Witness ==
    /\ Len(requests) = 2
    /\ requests[1].SHA256 # EmptyString
    /\ requests[2].SHA256 = EmptyString
    /\ resp[1] # <<>>
    /\ ~Exists(cacheDir, Path(requests[1].Filename))
    /\ task[2] = "done"
    /\ results[2].Cached
    /\ Content(cacheDir, Path(requests[2].Filename)) = Bad

\* C20: a task whose cache lookup is a hit issues no network request; its
\* result has Cached = true, the path of the cache entry and the size the
\* entry has on disk at the lookup; a batch whose tasks are all hits issues
\* no request at all.
C20_CacheHitNoNetwork ==
    /\ [](/\ \A i \in 1..Len(task) :
               (task[i] = "done" /\ results[i].Cached) =>
                   /\ cacheOn
                   /\ resp[i] = <<>>
                   /\ results[i].FilePath = In("cache", Path(requests[i].Filename))
          /\ (\A i \in 1..Len(task) : task[i] = "done" /\ results[i].Cached) =>
                 \A i \in 1..Len(resp) : resp[i] = <<>>)
    /\ [][\A i \in 1..Len(task) :
            (task[i] = "lookup" /\ task'[i] = "done") =>
                /\ results'[i].Cached
                /\ results'[i].Size =
                       Len(Content(cacheDir, Path(requests[i].Filename)))
                /\ resp'[i] = <<>>]_vars

\* Download returned two results, both served from the cache
C20_Witness ==
    /\ dpc = "returned"
    /\ Len(requests) = 2
    /\ requests[1] # requests[2]
    /\ dout.err = NoError
    /\ \A i \in 1..2 : dout.results[i].Cached /\ dout.results[i].Size = Len(Good)
    /\ \A i \in 1..2 : resp[i] = <<>>

(***************************************************************************)
(* Properties of the cache round trip.                                     *)
(***************************************************************************)
\* goroutine i missed the cache, downloaded its wheel and stored the result
Downloaded(i) == cacheOn /\ task[i] = "done" /\ ~results[i].Cached

\* the Put call of goroutine i returned no error
PutDone(i) == Downloaded(i) /\ putCalls[i] # <<>> /\ putCalls[i][1].ok

\* the lookup a later fetch of request i would make now is a hit
WouldHit(i) ==
    LET g == Get(cacheDir, requests[i].Filename, requests[i].SHA256)
    IN /\ g.ok
       /\ g.path = Path(requests[i].Filename)
       /\ CachedResult(requests[i], g.path, g.dir).Cached

Values(field) == Range(Split(field, "."))

\* the file at position k of urls is a wheel: it is typed as one and its
\* name has the fields of a wheel name
IsWheel(k) ==
    /\ urls[k].PackageType = "bdist_wheel"
    /\ Len(Split(TrimSuffix(urls[k].Filename, WhlSuffix), "-")) >= 5

\* the interpreter, abi and platform fields of the wheel at position k: the
\* last three fields of its name
TagFields(k) ==
    LET parts == Split(TrimSuffix(urls[k].Filename, WhlSuffix), "-")
    IN SubSeq(parts, Len(parts) - 2, Len(parts))

\* the wheel at position k matches the priority entry at position i
Matches(k, i) ==
    /\ IsWheel(k)
    /\ compatTags[i].Python \in Values(TagFields(k)[1])
    /\ compatTags[i].ABI \in Values(TagFields(k)[2])
    /\ compatTags[i].Platform \in Values(TagFields(k)[3])

Compatible == {k \in 1..Len(urls) : \E i \in 1..Len(compatTags) : Matches(k, i)}

\* the lowest priority index the wheel at k matches
Rank(k) ==
    CHOOSE i \in 1..Len(compatTags) :
        Matches(k, i) /\ \A j \in 1..(i - 1) : ~Matches(k, j)

\* the first wheel among those of the smallest rank
Best ==
    CHOOSE k \in Compatible :
        \A j \in Compatible : Rank(k) < Rank(j) \/ (Rank(k) = Rank(j) /\ k <= j)

\* C22: SelectWheel ignores the files that are not wheels and returns the
\* wheel whose lowest matching priority index is smallest, the first such
\* wheel of the list on a tie, where a wheel matches an entry (i, a, p) iff
\* i, a and p are among the dot-separated values of its interpreter, abi
\* and platform fields; when no wheel matches an entry it returns the
\* no-compatible-wheel error and never a source distribution.
C22_BestWheelSelected ==
    (wop = "select" /\ wpc = "returned") =>
        IF Compatible = {}
        THEN wout.err = "no compatible wheel found" /\ wout.url = ZeroURL
        ELSE /\ wout.err = ""
             /\ wout.url = urls[Best]
             /\ wout.url.PackageType = "bdist_wheel"

\* a list with a source distribution, a wheel for another platform and two
\* wheels that match the same entry, which is not the first of the priority
\* list: the first of the two is returned, a wheel with a compound tag
C22_Witness ==
    /\ wop = "select" /\ wpc = "returned"
    /\ Len(urls) = 3
    /\ Cardinality(Compatible) = 2
    /\ \E k \in 1..Len(urls) : urls[k].PackageType = "sdist"
    /\ \A k \in Compatible : Rank(k) = 2
    /\ wout.url = urls[Best]
    /\ Len(Split(TagFields(Best)[1], ".")) = 2
    /\ \E k \in Compatible : k > Best

\* the parts of the name parsed
NameParts == Split(TrimSuffix(wfile, WhlSuffix), "-")

\* the name, version and tag that ParseWheelFilename returned, written out
\* again
Rendered ==
    JoinWith(<<wparsed.name, wparsed.version, wparsed.tag.Python, wparsed.tag.ABI,
               wparsed.tag.Platform>>, "-")

IsPrefixOf(s, t) == Len(s) <= Len(t) /\ SubSeq(t, 1, Len(s)) = s

\* C23: for every wheel filename
\* {distribution}-{version}(-{buildtag})?-{interpreter}-{abi}-{platform}.whl
\* ParseWheelFilename succeeds and returns the name, the version and the
\* tag the filename was written from: written out again, name and version
\* are the prefix of the filename and the tag is its end, and they give the
\* whole filename when it has no build tag; a name of fewer than five
\* hyphen-separated parts is rejected.
C23_ParseRoundTrip ==
    (wop = "parse" /\ wpc = "returned") =>
        /\ wsrc \in GrammarFields =>
              /\ ~wparsed.err
              /\ wparsed.name = wsrc.distribution
              /\ wparsed.version = wsrc.version
              /\ wparsed.tag = WheelTag(wsrc.interpreter, wsrc.abi, wsrc.platform)
              /\ IsPrefixOf(JoinWith(<<wparsed.name, wparsed.version>>, "-") \o <<"-">>,
                            wfile)
              /\ HasSuffix(wfile,
                           <<"-">> \o JoinWith(<<wparsed.tag.Python, wparsed.tag.ABI,
                                                 wparsed.tag.Platform>>, "-")
                           \o WhlSuffix)
              /\ wsrc.buildtag = EmptyString => Rendered \o WhlSuffix = wfile
        /\ Len(NameParts) < 5 => wparsed.err
        /\ wparsed.err => Len(NameParts) < 5

\* a name with a build tag and compound tags was parsed
C23_Witness ==
    /\ wop = "parse" /\ wpc = "returned"
    /\ wsrc \in GrammarFields
    /\ wsrc.buildtag # EmptyString
    /\ Len(wsrc.interpreter) > 1
    /\ Len(wsrc.platform) > 1
    /\ ~wparsed.err
    /\ Len(NameParts) = 6

(***************************************************************************)
(* Properties of the installer.                                            *)
(***************************************************************************)
\* the wheel at wi has just been installed: installWheel returned nil and
\* distInfoDir is still the directory of that wheel
JustInstalled == ipc = "loop" /\ wi >= 1

\* the rows of the RECORD written for the wheel just installed
RecordRows == disk[Join(distInfoDir, <<"RECORD">>)].body

\* the path a row gives to RECORD itself
RecordSelfPath == <<Base(distInfoDir), "RECORD">>

\* the events of wheel w that wrote a file which RECORD is to list
Writes(w) == SelectSeq(log[w], LAMBDA ev : ev.kind \in {"entry", "installer", "launcher"})

\* the files installed for wheel w
InstalledFiles(w) == {Writes(w)[k].path : k \in 1..Len(Writes(w))}

\* C24: after a wheel is installed, every row of its RECORD other than
\* the row of RECORD itself names, relative to site-packages, a file that
\* exists and whose SHA-256 digest and size are the ones of the row.
C24_RecordMatchesDisk ==
    JustInstalled =>
        \A k \in 1..Len(RecordRows) :
            RecordRows[k].Path # RecordSelfPath =>
                LET p == Join(pyenv.SitePackages, RecordRows[k].Path)
                IN /\ p \in DOMAIN disk
                   /\ RecordRows[k].Hash = <<"sha256=", Sha256Hex(disk[p].body)>>
                   /\ RecordRows[k].Size = FormatSize(Len(disk[p].body))

\* C25: the RECORD of an installed wheel has exactly one row for each
\* installed file (extracted, INSTALLER, launcher), then a last row for
\* RECORD itself with empty hash and size: as many rows as installed files
\* plus one.
C25_OneRowPerFile ==
    JustInstalled =>
        /\ \A p \in InstalledFiles(wi) :
               Cardinality({k \in 1..(Len(RecordRows) - 1) :
                               Join(pyenv.SitePackages, RecordRows[k].Path) = p}) = 1
        /\ RecordRows[Len(RecordRows)] =
               [Path |-> RecordSelfPath, Hash |-> EmptyString, Size |-> EmptyString]
        /\ Len(RecordRows) = Cardinality(InstalledFiles(wi)) + 1

\* wheel w has an entry whose destination lies outside its base
HasUnsafeEntry(w) ==
    \E k \in 1..Len(downloads[w].entries) :
        LET r == resolveDestination(downloads[w].entries[k].Name, pyenv)
        IN /\ r.destPath # EmptyString
           /\ ~isInsideDir(r.destPath, baseForCategory(r.category, pyenv))

\* the installation of wheel w ended with the error kind
FailedWith(w, kind) == ipc = "returned" /\ ierr = [kind |-> kind, wheel |-> w]

\* the installation of wheel w failed in installWheel
Failed(w) ==
    /\ ipc = "returned"
    /\ ierr.wheel = w
    /\ ierr.kind # "installation canceled"

\* C26: a wheel with an entry that resolves outside its base is never
\* installed, and when its installation fails with the unsafe-archive
\* error no file of that wheel has been written, wherever the entry sits
\* in the archive.
C26_UnsafeArchiveWritesNothing ==
    \A w \in 1..Len(downloads) :
        /\ HasUnsafeEntry(w) => wi < w
        /\ FailedWith(w, "zip slip detected") => HasUnsafeEntry(w) /\ Writes(w) = <<>>

\* the destination the routing rule gives the entry name: by the bucket
\* for an entry under the .data directory of the distribution, in
\* site-packages under its own path for every other entry
RouteOf(name) ==
    IF name[1] = DataDir
    THEN IF Len(name) < 3 THEN [skip |-> TRUE]
         ELSE IF name[2] \in {"purelib", "platlib"}
         THEN [skip |-> FALSE, exec |-> FALSE,
               path |-> Join(pyenv.SitePackages, SubSeq(name, 3, Len(name)))]
         ELSE IF name[2] = "scripts"
         THEN [skip |-> FALSE, exec |-> TRUE,
               path |-> Join(pyenv.Prefix, <<"bin">> \o SubSeq(name, 3, Len(name)))]
         ELSE IF name[2] = "data"
         THEN [skip |-> FALSE, exec |-> FALSE,
               path |-> Join(pyenv.Prefix, SubSeq(name, 3, Len(name)))]
         ELSE IF name[2] = "headers"
         THEN [skip |-> FALSE, exec |-> FALSE,
               path |-> Join(pyenv.Prefix, <<"include">> \o SubSeq(name, 3, Len(name)))]
         ELSE [skip |-> TRUE]
    ELSE [skip |-> FALSE, exec |-> FALSE, path |-> Join(pyenv.SitePackages, name)]

\* C27: every entry handled is routed by its path: an entry under the
\* .data directory goes by its bucket (purelib and platlib to
\* site-packages, scripts to prefix/bin and executable, data to prefix,
\* headers to prefix/include, another bucket skipped) and every other entry
\* goes to site-packages under its in-archive path.
C27_RoutedByPath ==
    \A w \in 1..Len(downloads) :
        \A k \in 1..Len(log[w]) :
            LET ev == log[w][k]
            IN ev.kind \in {"entry", "skip"} =>
                   /\ (ev.kind = "skip") = RouteOf(ev.name).skip
                   /\ ev.kind = "entry" =>
                          /\ ev.path = RouteOf(ev.name).path
                          /\ (RouteOf(ev.name).exec /\ (k < Len(log[w]) \/ ~Failed(w)))
                                 => disk[ev.path].exec

\* wheel w has no entry under a .dist-info directory
NoDistInfoEntry(w) ==
    \A k \in 1..Len(downloads[w].entries) :
        downloads[w].entries[k].Name[1] \notin DistInfoSuffixed

\* C28: a wheel with no entry under a .dist-info directory is never
\* installed: once its entries are extracted installWheel fails with the
\* missing-metadata error, and neither INSTALLER nor RECORD (nor a
\* launcher) is written for it.
C28_MissingDistInfo ==
    \A w \in 1..Len(downloads) :
        NoDistInfoEntry(w) =>
            /\ wi < w
            /\ \A k \in 1..Len(log[w]) : log[w][k].kind \in {"entry", "skip"}
            /\ (Failed(w) /\ ierr.kind # "opening wheel"
                    /\ ei = Len(downloads[w].entries))
                   => ierr.kind = "no .dist-info directory found"
            /\ ierr.wheel = w =>
                   ierr.kind \notin {"writing INSTALLER", "hashing INSTALLER",
                                     "installing console scripts", "writing RECORD"}

\* a wheel whose only entries are outside .dist-info was extracted and
\* Install returned the missing-metadata error
C28_Witness ==
    \E w \in 1..Len(downloads) :
        /\ NoDistInfoEntry(w)
        /\ FailedWith(w, "no .dist-info directory found")
        /\ Len(Writes(w)) >= 2
        /\ \A k \in 1..Len(Writes(w)) : Writes(w)[k].path \in DOMAIN disk

\* C29: installing a wheel is atomic: when the installation of a wheel
\* fails, at whatever step, none of the files written for it is in the
\* target environment.
C29_WheelAtomic ==
    \A w \in 1..Len(downloads) :
        Failed(w) => \A k \in 1..Len(log[w]) :
                         log[w][k].kind # "skip" => log[w][k].path \notin DOMAIN disk

\* the files written for the wheels before w are all there
EarlierFilesRemain(w) ==
    \A v \in 1..(w - 1) :
        /\ log[v] # <<>>
        /\ log[v][Len(log[v])].kind = "record"
        /\ \A k \in 1..Len(log[v]) :
               log[v][k].kind # "skip" => log[v][k].path \in DOMAIN disk

\* the wheels are taken in list order: the wheels before wi + 1 are
\* installed, the ones after it untouched; after an error at wheel w no
\* later wheel was extracted and the wheels before it are in place
InOrder ==
    /\ EarlierFilesRemain(wi + 1)
    /\ \A v \in (wi + 2)..Len(downloads) : log[v] = <<>>
    /\ ipc = "loop" /\ wi < Len(downloads) => log[wi + 1] = <<>>
    /\ (ipc = "returned" /\ ierr # NoInstallError) =>
           /\ ierr.wheel = wi + 1
           /\ ierr.kind \in {"installation canceled", "opening wheel"}
                  => log[ierr.wheel] = <<>>
    /\ (ipc = "returned" /\ ierr = NoInstallError) => wi = Len(downloads)

\* the context is tested before each wheel: with a canceled context the
\* next step at the head of the loop returns the canceled error and writes
\* nothing; and once Install has returned nothing changes any more
StopsAtFirstError ==
    /\ (ictx /\ ipc = "loop" /\ wi < Len(downloads)) =>
           /\ ipc' = "returned"
           /\ ierr' = [kind |-> "installation canceled", wheel |-> wi + 1]
           /\ disk' = disk
           /\ log' = log
    /\ ipc = "returned" => UNCHANGED <<disk, log, ierr, wi>>

\* C30: Install takes the wheels in list order and returns at the first
\* error, a failing wheel or a context found canceled before a wheel: no
\* later wheel is extracted and the files of the wheels installed before
\* remain.
C30_FirstErrorStops == []InOrder /\ [][StopsAtFirstError]_vars

\* the first wheel is installed, the context is canceled, and Install
\* returns the canceled error before the second wheel with the files of the
\* first in place
C30_Witness ==
    /\ Len(downloads) = 2
    /\ FailedWith(2, "installation canceled")
    /\ log[2] = <<>>
    /\ Len(Writes(1)) >= 2
    /\ EarlierFilesRemain(2)

\* entry_points.txt of the wheel being installed, and its lines (none when
\* the file is missing)
EntryPointsPath == Join(distInfoDir, <<"entry_points.txt">>)

EntryPointsLines ==
    IF EntryPointsPath \in DOMAIN disk THEN disk[EntryPointsPath].body ELSE <<>>

\* the tokens of line k
TokensAt(k) == EntryPointsLines[k].tokens

\* line k is a section header
IsHeader(k) == TokensAt(k) # <<>> /\ TokensAt(k)[1] = "["

\* line k has the shape name = module:attr, extras or none after it
IsScriptEntry(k) ==
    /\ TokensAt(k) # <<>>
    /\ TokensAt(k)[1] \notin {"#", "[", "="}
    /\ \E e, c \in 1..Len(TokensAt(k)) :
           /\ e < c
           /\ TokensAt(k)[e] = "="
           /\ TokensAt(k)[c] = ":"
           /\ \A j \in (e + 1)..(c - 1) : TokensAt(k)[j] \notin {"[", ":"}
           /\ \A j \in 1..(e - 1) : TokensAt(k)[j] # "="

\* line k is in the section [console_scripts]: the last header before it
\* is that one
InConsoleScripts(k) ==
    \E h \in 1..(k - 1) :
        /\ TokensAt(h) = <<"[", "console_scripts", "]">>
        /\ \A j \in (h + 1)..(k - 1) : ~IsHeader(j)

\* the lines that call for a launcher
LauncherLines ==
    {k \in 1..Len(EntryPointsLines) : IsScriptEntry(k) /\ InConsoleScripts(k)}

\* the module and the attribute line k names
ModuleAt(k) ==
    LET e == IndexOf(TokensAt(k), "=")
        c == CHOOSE i \in (e + 1)..Len(TokensAt(k)) :
                 TokensAt(k)[i] = ":" /\ \A j \in (e + 1)..(i - 1) : TokensAt(k)[j] # ":"
    IN SubSeq(TokensAt(k), e + 1, c - 1)

AttrAt(k) ==
    LET e == IndexOf(TokensAt(k), "=")
        c == e + Len(ModuleAt(k)) + 1
        last == IF \E i \in (c + 1)..Len(TokensAt(k)) : TokensAt(k)[i] = "["
                THEN (CHOOSE i \in (c + 1)..Len(TokensAt(k)) :
                          /\ TokensAt(k)[i] = "["
                          /\ \A j \in (c + 1)..(i - 1) : TokensAt(k)[j] # "[") - 1
                ELSE Len(TokensAt(k))
    IN SubSeq(TokensAt(k), c + 1, last)

Launchers(w) == SelectSeq(log[w], LAMBDA ev : ev.kind = "launcher")

\* C31: when a wheel is installed, the launchers written are those of the
\* entries name = module:attr (extras stripped) of the section
\* [console_scripts] of its entry_points.txt and of no other section: each
\* is the file <prefix>/bin/<name>, executable, calling module.attr, and
\* has a row in RECORD; with no entry_points.txt there is no launcher, and
\* the launcher step fails no install.
C31_ConsoleScripts ==
    /\ JustInstalled =>
           /\ Len(Launchers(wi)) = Cardinality(LauncherLines)
           /\ {Launchers(wi)[k].name : k \in 1..Len(Launchers(wi))}
                  = {<<TokensAt(k)[1]>> : k \in LauncherLines}
           /\ \A k \in LauncherLines :
                  LET path == Join(pyenv.Prefix, <<"bin", TokensAt(k)[1]>>)
                  IN /\ path \in DOMAIN disk
                     /\ disk[path].exec
                     /\ disk[path].body = <<[shebang |-> pyenv.PythonPath,
                                             module |-> ModuleAt(k),
                                             attr |-> AttrAt(k)]>>
                     /\ \E r \in 1..Len(RecordRows) :
                            /\ Len(RecordRows[r].Path) >= 2
                            /\ SubSeq(RecordRows[r].Path, Len(RecordRows[r].Path) - 1,
                                      Len(RecordRows[r].Path)) = <<"bin", TokensAt(k)[1]>>
                            /\ RecordRows[r].Hash = <<"sha256=", Sha256Hex(disk[path].body)>>
    /\ (ipc = "returned" /\ ierr.kind = "installing console scripts")
           => EntryPointsPath \in DOMAIN disk

\* a wheel whose entry_points.txt has entries in three sections, one of
\* them [console_scripts] with an entry with extras and a malformed one,
\* is installed: the one launcher is there, none for the other sections
C31_Witness ==
    /\ JustInstalled
    /\ Len(EntryPointsLines) > 2
    /\ LauncherLines # {}
    /\ \E k \in LauncherLines : "[" \in Range(SubSeq(TokensAt(k), 2, Len(TokensAt(k))))
    /\ \E k \in 1..Len(EntryPointsLines) : IsScriptEntry(k) /\ ~InConsoleScripts(k)
    /\ Join(pyenv.Prefix, <<"bin", "tool">>) \in DOMAIN disk
    /\ Join(pyenv.Prefix, <<"bin", "gui">>) \notin DOMAIN disk

\* the base of the routing category of the entry name: site-packages for
\* purelib, platlib and ordinary entries, <prefix>/bin for scripts,
\* <prefix>/include for headers, <prefix> for data
CategoryBase(name) ==
    IF name[1] = DataDir /\ Len(name) >= 3 /\ name[2] = "scripts"
    THEN Join(pyenv.Prefix, <<"bin">>)
    ELSE IF name[1] = DataDir /\ Len(name) >= 3 /\ name[2] = "headers"
    THEN Join(pyenv.Prefix, <<"include">>)
    ELSE IF name[1] = DataDir /\ Len(name) >= 3 /\ name[2] = "data"
    THEN pyenv.Prefix
    ELSE pyenv.SitePackages

\* C35: every file written for an entry of a wheel lies inside the base
\* of the routing category of the entry (site-packages, <prefix>/bin for
\* scripts, <prefix>/include for headers, <prefix> for data): an entry
\* whose destination is outside that base is never written.
C35_WrittenInsideBase ==
    \A w \in 1..Len(downloads) :
        \A k \in 1..Len(log[w]) :
            log[w][k].kind = "entry" =>
                isInsideDir(log[w][k].path, CategoryBase(log[w][k].name))

(***************************************************************************)
(* Properties of the candidate versions and of the resolved set.           *)
(***************************************************************************)
\* version v of the releases map rel has a file that is not yanked
HasLiveFile(rel, v) == \E k \in 1..Len(rel[v]) : ~rel[v][k].Yanked

\* C38: a version is a candidate only if one of its release files is not
\* yanked, so the version chosen for a package is never one whose files
\* are all yanked; when the response has no releases map the latest
\* version is the only candidate.
C38_YankedNeverCandidate ==
    (rpc = "fetchDeps") =>
        IF DOMAIN cur.releases # {}
        THEN /\ \A v \in cur.versions : HasLiveFile(cur.releases, v)
             /\ HasLiveFile(cur.releases, cur.best)
        ELSE cur.versions = {cur.infoVersion} /\ cur.best = cur.infoVersion

\* the names of the packages Resolve returned
Returned == {result[k].Name : k \in 1..Len(result)}

\* C40: when no_deps is off and Resolve succeeds the resolved set is
\* closed under dependencies: every name in the Dependencies of a returned
\* package is the name of a returned package.
C40_ClosedUnderDependencies ==
    (rpc = "done" /\ ~noDeps) =>
        \A k \in 1..Len(result) :
            \A d \in 1..Len(result[k].Dependencies) :
                result[k].Dependencies[d] \in Returned

\* Resolve was given one requirement and returned two packages: the one
\* asked for, which lists the other as its dependency
C40_Witness ==
    /\ rpc = "done" /\ ~noDeps
    /\ Len(requirements) = 1
    /\ Len(result) = 2
    /\ \E k \in 1..Len(result) :
           /\ Len(result[k].Dependencies) = 1
           /\ result[k].Dependencies[1] # result[k].Name

(***************************************************************************)
(* Properties of NormalizeName and EvalMarker.                             *)
(***************************************************************************)
Separators == {"-", "_", "."}

\* the positions of name that start a run of separators or hold another
\* character
RunStarts(name) ==
    {i \in 1..Len(name) : name[i] \notin Separators \/ i = 1 \/ name[i - 1] \notin Separators}

\* name in lowercase with every run of separators written as one hyphen
Collapsed(name) ==
    [k \in 1..Cardinality(RunStarts(name)) |->
        LET i == CHOOSE j \in RunStarts(name) :
                     Cardinality({h \in RunStarts(name) : h <= j}) = k
        IN IF name[i] \in Separators THEN "-" ELSE ToLower(name[i])]

\* C33: NormalizeName applied to its own result returns that result, and
\* its result is the name in lowercase with every run of '-', '_' and '.'
\* written as one '-': no uppercase letter, no '_', no '.', no two hyphens
\* in a row.
C33_NormalizeIdempotent ==
    (qop = "NormalizeName" /\ qpc = "returned") =>
        /\ nout2 = nout
        /\ nout = Collapsed(qname)
        /\ \A i \in 1..Len(nout) :
            /\ nout[i] \notin Range(UpperCase)
            /\ nout[i] \notin {"_", "."}
            /\ i < Len(nout) => ~(nout[i] = "-" /\ nout[i + 1] = "-")

C33_Witness ==
    /\ qop = "NormalizeName"
    /\ qpc = "returned"
    /\ qname = <<"B", "_", ".", "a">>
    /\ nout = <<"b", "-", "a">>
    /\ nout2 = nout

RECURSIVE CloseOf(_, _, _)
\* the position of the parenthesis that closes the group opened before
\* position i of s, depth groups being open at i
CloseOf(s, i, depth) ==
    IF i > Len(s) THEN Len(s)
    ELSE IF s[i] = ParenOpen THEN CloseOf(s, i + 1, depth + 1)
    ELSE IF s[i] = ParenClose
    THEN (IF depth = 1 THEN i ELSE CloseOf(s, i + 1, depth - 1))
    ELSE CloseOf(s, i + 1, depth)

\* where the first operand of s ends: a term, or a group up to its closing
\* parenthesis
OperandEnd(s) == IF s[1] = ParenOpen THEN CloseOf(s, 2, 1) ELSE 1

\* the value of one term when no extra is active
TermValue(term, env) ==
    IF term.left = "extra" \/ term.right = "extra" THEN FALSE
    ELSE evalTerm(<<term>>, env)

RECURSIVE LeftToRight(_, _)
RECURSIVE FoldLeft(_, _, _)
RECURSIVE OperandValue(_, _)
\* the value of an operand: of the term, or of the expression in the group
OperandValue(s, env) ==
    IF s[1] = ParenOpen THEN LeftToRight(SubSeq(s, 2, Len(s) - 1), env)
    ELSE TermValue(s[1], env)

\* acc combined with the operands of rest one after the other, and / or
\* taken as they come
FoldLeft(acc, rest, env) ==
    IF rest = <<>> THEN acc
    ELSE LET r == Tail(rest)
             e == OperandEnd(r)
             v == OperandValue(SubSeq(r, 1, e), env)
         IN FoldLeft(IF Head(rest) = KwAnd THEN acc /\ v ELSE acc \/ v,
                     SubSeq(r, e + 1, Len(r)), env)

\* the value of a marker read from left to right with and / or at equal
\* precedence and a group standing for the value of what it encloses
LeftToRight(s, env) ==
    FoldLeft(OperandValue(SubSeq(s, 1, OperandEnd(s)), env),
             SubSeq(s, OperandEnd(s) + 1, Len(s)), env)

\* C36: EvalMarker gives a marker that mentions no extra the value it has
\* when and / or are taken at equal precedence from left to right and a
\* parenthesized group has the value of the expression inside it: A or B
\* and C is (A or B) and C, and (A or B) and C is false when A and B are.
C36_EqualPrecedence ==
    (qop = "EvalMarker" /\ qpc = "returned" /\ qmarker # NoMarker
        /\ ~MentionsExtra(qmarker)) =>
        mout = LeftToRight(qmarker, qenv)

\* C37: with no extra active a term about extra is false as a term: a
\* marker that joins it to another term by and is false, and one that
\* joins it by or has the value of the other term.
C37_ExtraTermFalse ==
    (qop = "EvalMarker" /\ qpc = "returned" /\ Len(qmarker) = 3
        /\ (qmarker[1] = ExtraDocs \/ qmarker[3] = ExtraDocs)) =>
        IF qmarker[2] = KwAnd
        THEN mout = FALSE
        ELSE mout = (TermValue(qmarker[1], qenv) \/ TermValue(qmarker[3], qenv))

(***************************************************************************)
(* Properties of the index client.                                         *)
(***************************************************************************)
\* the answers after which a request may be repeated: no response at all,
\* a 5xx status, a body that breaks off
Transient(answer) ==
    \/ answer.failed
    \/ answer.status >= 500
    \/ answer.status = 200 /\ answer.body = "truncated"

\* the answers that end the call with an error: 404, another 4xx status, a
\* body that is not the JSON of a package
Fatal(answer) ==
    /\ ~answer.failed
    /\ \/ answer.status \in 400..499
       \/ answer.status = 200 /\ answer.body = "garbage"

\* C32: one GetPackage or GetPackageVersion call makes at most 3 requests;
\* every request but the last met a network failure, a 5xx status or a
\* truncated body; a 404, another 4xx status or a body that does not decode
\* ends the call with an error and no further request, after exactly one
\* request when it is the first answer.
C32_BoundedRetry ==
    /\ Len(fsent) <= 3
    /\ \A k \in 1..(Len(fsent) - 1) : Transient(fsent[k])
    /\ (fsent # <<>> /\ Fatal(fsent[Len(fsent)])) =>
           /\ fpc = "returned"
           /\ ~fret.info
           /\ fret.err.kind # "none"
    /\ (fsent # <<>> /\ Fatal(fsent[1])) => Len(fsent) = 1
    /\ (fpc = "returned" /\ fret.info) =>
           fsent[Len(fsent)] = Response(200, "json")

C32_Witness ==
    /\ fpc = "returned"
    /\ fsent = <<NetworkFailure, Response(503, "none"), Response(404, "none")>>
    /\ fwaited = <<1000, 2000>>
    /\ ~fret.info
    /\ fret.err.text = "package not found"

(***************************************************************************)
(* Properties of a run of the install command.                             *)
(***************************************************************************)
\* the run has ended and collectRequirements had returned no requirement
EndedWithNoRequirement ==
    /\ mpc = "exited"
    /\ margs.reqFile # "missing"
    /\ collectRequirements(margs.packages, margs.reqFile) = <<>>

C39_TempDirRemoved ==
    mpc = "exited" =>
        /\ mtmp # "present"
        /\ (\E i \in 1..Len(mcalls) : mcalls[i] \in {"Download", "Install"}) =>
               mtmp = "removed"

C39_Witness ==
    /\ mpc = "exited"
    /\ mcalls # <<>>
    /\ mcalls[Len(mcalls)] = "Install"
    /\ merr = "installation canceled"
    /\ mctx
    /\ mtmp = "removed"

====
